---- MODULE Spec2Model ----
(***************************************************************************)
(* quarr.js: the SQL-like parser and execution engine (parseSQL,           *)
(* parseWhere, evalCondition, executeAST and their helpers).               *)
(*                                                                         *)
(* The engine is a set of pure functions.  Each one is an operator below,  *)
(* computed the way the TypeScript computes it; the state machine applies  *)
(* them to inputs drawn from bounded pools and records the last call.      *)
(*                                                                         *)
(* Representation.  A JavaScript string is a TLA+ string; the operators    *)
(* Len, SubSeq and \o act on it character by character.  Character         *)
(* positions are 1-based here and 0-based in the source.  A JavaScript     *)
(* value is a tagged record (see "Values"), a row is a TLA+ record from    *)
(* its own property names to values.                                       *)
(***************************************************************************)
EXTENDS Integers, Sequences, FiniteSets, TLC

VARIABLES
    op,      \* the function called last: "none", "parseSQL", "executeAST", ...
    query,   \* the text handed to parseSQL or parseWhere, "" otherwise
    shape,   \* how the text handed to parseWhere was composed (see Shapes)
    ast,     \* the AST parseSQL returned, executeAST's first argument
    cond,    \* the tree parseWhere returned, evalCondition's second argument
    like,    \* the value and the pattern handed to matchLike
    input,   \* the rows handed to executeAST, or <<row>> for evalCondition
    data,    \* what the list handed in holds after the call
    quarr,   \* the fields of the Quarr builder; optional ones are absent until set
    arg,     \* the field handed to sum or avg
    calls,   \* the calls made on the builder so far, with their arguments
    effects, \* the list executeAST returned and the objects it wrote to
    result   \* what the last call returned: Ok(value) or Throw(message)

vars == <<op, query, shape, ast, cond, like, input, data, quarr, calls, arg, effects, result>>

-----------------------------------------------------------------------------
(* Strings *)

\* s.charAt(i - 1): the character at position i, "" outside the string
At(s, i) == IF 1 <= i /\ i <= Len(s) THEN SubSeq(s, i, i) ELSE ""

CharsOf(s) == {At(s, i) : i \in 1..Len(s)}

LowerLetters == "abcdefghijklmnopqrstuvwxyz"
UpperLetters == "ABCDEFGHIJKLMNOPQRSTUVWXYZ"
DigitChars == "0123456789"

LowerSet == CharsOf(LowerLetters)
UpperSet == CharsOf(UpperLetters)
DigitSet == CharsOf(DigitChars)

\* \w of a JavaScript regular expression
WordSet == LowerSet \cup UpperSet \cup DigitSet \cup {"_"}

\* \s of a JavaScript regular expression, over the characters of the model
\* (TLA+ strings carry "\n", "\t", "\r" and the space)
SpaceSet == {" ", "\n", "\t", "\r", "\f"}

IndexIn(letters, c) == CHOOSE i \in 1..Len(letters) : At(letters, i) = c

ToUpperCh(c) == IF c \in LowerSet THEN At(UpperLetters, IndexIn(LowerLetters, c)) ELSE c
ToLowerCh(c) == IF c \in UpperSet THEN At(LowerLetters, IndexIn(UpperLetters, c)) ELSE c

RECURSIVE MapStr(_, _)
MapStr(s, upper) ==
    IF Len(s) = 0 THEN ""
    ELSE IF Len(s) = 1 THEN (IF upper THEN ToUpperCh(s) ELSE ToLowerCh(s))
    ELSE LET m == Len(s) \div 2
         IN  MapStr(SubSeq(s, 1, m), upper) \o MapStr(SubSeq(s, m + 1, Len(s)), upper)

\* String.prototype.toUpperCase / toLowerCase
ToUpperCase(s) == MapStr(s, TRUE)
ToLowerCase(s) == MapStr(s, FALSE)

\* the number of leading / trailing characters of s that are in set
RECURSIVE RunFrom(_, _, _)
RunFrom(s, p, set) ==
    IF p <= Len(s) /\ At(s, p) \in set THEN 1 + RunFrom(s, p + 1, set) ELSE 0

RECURSIVE RunBack(_, _, _)
RunBack(s, p, set) ==
    IF p >= 1 /\ At(s, p) \in set THEN 1 + RunBack(s, p - 1, set) ELSE 0

\* String.prototype.trim
Trim(s) ==
    LET a == RunFrom(s, 1, SpaceSet)
    IN  IF a = Len(s) THEN ""
        ELSE SubSeq(s, a + 1, Len(s) - RunBack(s, Len(s), SpaceSet))

\* s.startsWith(p, i - 1): p occurs in s at (1-based) position i
StartsWithAt(s, p, i) == i >= 1 /\ i + Len(p) - 1 <= Len(s) /\ SubSeq(s, i, i + Len(p) - 1) = p
StartsWith(s, p) == StartsWithAt(s, p, 1)
EndsWith(s, p) == StartsWithAt(s, p, Len(s) - Len(p) + 1)

\* s.includes(p)
Includes(s, p) == \E i \in 1..(Len(s) + 1) : StartsWithAt(s, p, i)

\* s.indexOf(p), 1-based; 0 when p does not occur
IndexOf(s, p) ==
    IF Includes(s, p)
    THEN CHOOSE i \in 1..(Len(s) + 1) :
            StartsWithAt(s, p, i) /\ \A j \in 1..(i - 1) : ~StartsWithAt(s, p, j)
    ELSE 0

\* s.split(sep) for a non-empty separator
RECURSIVE Split(_, _)
Split(s, sep) ==
    LET i == IndexOf(s, sep)
    IN  IF i = 0 THEN <<s>>
        ELSE <<SubSeq(s, 1, i - 1)>> \o Split(SubSeq(s, i + Len(sep), Len(s)), sep)

\* parts.join(sep)
RECURSIVE Join(_, _)
Join(parts, sep) ==
    IF Len(parts) = 0 THEN ""
    ELSE IF Len(parts) = 1 THEN parts[1]
    ELSE parts[1] \o sep \o Join(Tail(parts), sep)

\* every character of s is in set
AllIn(s, set) == \A i \in 1..Len(s) : At(s, i) \in set

\* the greatest element of a non-empty set of integers; the least one, 0
\* for the empty set
Max(S) == CHOOSE x \in S : \A y \in S : x >= y
MinOr0(S) == IF S = {} THEN 0 ELSE CHOOSE x \in S : \A y \in S : x <= y

-----------------------------------------------------------------------------
(* Values *)
(* The JavaScript values of the model: undefined, null, numbers (exact     *)
(* fractions n/d in lowest terms, d > 0; NaN apart), strings and plain     *)
(* objects (a TLA+ record of values).  Booleans, arrays, Infinity and      *)
(* non-integer number literals are outside the model.                      *)

Undefined == [t |-> "undefined"]
Null == [t |-> "null"]
NaN == [t |-> "NaN"]
Str(s) == [t |-> "string", s |-> s]
Obj(o) == [t |-> "object", o |-> o]

RECURSIVE Gcd(_, _)
Gcd(a, b) == IF b = 0 THEN a ELSE Gcd(b, a % b)

\* the number n/d (d # 0), in lowest terms
Frac(n, d) ==
    LET Abs(x) == IF x < 0 THEN -x ELSE x
        g == Gcd(Abs(n), Abs(d))
        sgn == IF d < 0 THEN -1 ELSE 1
    IN  [t |-> "number", n |-> sgn * (n \div g), d |-> sgn * (d \div g)]

Num(n) == [t |-> "number", n |-> n, d |-> 1]

IsStr(v) == v.t = "string"
IsNullish(v) == v.t \in {"undefined", "null"}     \* v == null

\* a thrown Error / a normal return
Throw(m) == [ok |-> FALSE, message |-> m]
Ok(v) == [ok |-> TRUE, value |-> v]

\* row[key]: a property read on a row or nested object record
Prop(o, key) == IF key \in DOMAIN o THEN o[key] ELSE Undefined

\* cur[p] on any value: a property read on a value that is not null/undefined
\* (strings and numbers have no own property among the model's keys)
ValueProp(v, key) == IF v.t = "object" THEN Prop(v.o, key) ELSE Undefined

\* the digits of a natural number
RECURSIVE NatToString(_)
NatToString(n) ==
    IF n < 10 THEN At(DigitChars, n + 1)
    ELSE NatToString(n \div 10) \o At(DigitChars, (n % 10) + 1)

\* the value of a non-empty string of digits
RECURSIVE DigitsToNat(_)
DigitsToNat(s) ==
    IF Len(s) = 0 THEN 0
    ELSE 10 * DigitsToNat(SubSeq(s, 1, Len(s) - 1)) + (IndexIn(DigitChars, At(s, Len(s))) - 1)

\* Number(s) for a string: white space is trimmed, "" is 0, an optionally
\* signed run of digits is that integer, anything else is NaN.  (Decimal
\* points, exponents, hex and "Infinity" are not in the model's strings.)
StringToNumber(s) ==
    LET Signed(sign, body) ==
            IF Len(body) > 0 /\ AllIn(body, DigitSet) THEN Num(sign * DigitsToNat(body)) ELSE NaN
        OfTrimmed(u) ==
            IF u = "" THEN Num(0)
            ELSE IF At(u, 1) = "-" THEN Signed(-1, SubSeq(u, 2, Len(u)))
            ELSE IF At(u, 1) = "+" THEN Signed(1, SubSeq(u, 2, Len(u)))
            ELSE Signed(1, u)
    IN  OfTrimmed(Trim(s))

\* String(v) of a number whose value is an integer
NumberToString(v) ==
    IF v.n < 0 THEN "-" \o NatToString(-v.n) ELSE NatToString(v.n)

\* Number(v)
JsNumber(v) ==
    CASE v.t = "undefined" -> NaN
      [] v.t = "null" -> Num(0)
      [] v.t = "number" -> v
      [] v.t = "NaN" -> NaN
      [] v.t = "string" -> StringToNumber(v.s)
      [] v.t = "object" -> NaN

\* String(v)
JsString(v) ==
    CASE v.t = "undefined" -> "undefined"
      [] v.t = "null" -> "null"
      [] v.t = "number" -> NumberToString(v)
      [] v.t = "NaN" -> "NaN"
      [] v.t = "string" -> v.s
      [] v.t = "object" -> "[object Object]"

\* typeof v
TypeOf(v) ==
    CASE v.t = "undefined" -> "undefined"
      [] v.t = "null" -> "object"
      [] v.t \in {"number", "NaN"} -> "number"
      [] v.t = "string" -> "string"
      [] v.t = "object" -> "object"

\* the characters in code-unit order: codes 32..95 and 97..126 (printable
\* ASCII but the backquote, which a TLA+ string cannot hold)
AsciiLow == " !\"#$%&'()*+,-./0123456789:;<=>?@ABCDEFGHIJKLMNOPQRSTUVWXYZ[\\]^_"
AsciiHigh == "abcdefghijklmnopqrstuvwxyz{|}~"

\* c.charCodeAt(0)
CharCode(c) ==
    IF c \in CharsOf(AsciiLow) THEN IndexIn(AsciiLow, c) + 31
    ELSE IndexIn(AsciiHigh, c) + 96

\* a < b on two strings (code-unit lexicographic order)
RECURSIVE StrLess(_, _)
StrLess(a, b) ==
    IF b = "" THEN FALSE
    ELSE IF a = "" THEN TRUE
    ELSE IF At(a, 1) = At(b, 1) THEN StrLess(SubSeq(a, 2, Len(a)), SubSeq(b, 2, Len(b)))
    ELSE CharCode(At(a, 1)) < CharCode(At(b, 1))

\* a < b on two numbers
NumLess(a, b) == a.n * b.d < b.n * a.d

\* ToPrimitive(v): an object becomes its string form
ToPrimitive(v) == IF v.t = "object" THEN Str(JsString(v)) ELSE v

\* the abstract relational comparison a < b: "true", "false", or
\* "undefined" (an operand is NaN)
LessThan(a, b) ==
    LET OfNumbers(na, nb) ==
            IF na = NaN \/ nb = NaN THEN "undefined"
            ELSE IF NumLess(na, nb) THEN "true" ELSE "false"
        OfPrimitives(pa, pb) ==
            IF IsStr(pa) /\ IsStr(pb)
            THEN (IF StrLess(pa.s, pb.s) THEN "true" ELSE "false")
            ELSE OfNumbers(JsNumber(pa), JsNumber(pb))
    IN  OfPrimitives(ToPrimitive(a), ToPrimitive(b))

\* a == b (loose equality)
LooseEq(a, b) ==
    LET OfNumbers(na, nb) == na # NaN /\ nb # NaN /\ na = nb
        OfPrimitives(pa, pb) ==
            IF pa.t = pb.t THEN pa = pb ELSE OfNumbers(JsNumber(pa), JsNumber(pb))
    IN  IF IsNullish(a) \/ IsNullish(b) THEN IsNullish(a) /\ IsNullish(b)
        ELSE IF a.t = "NaN" \/ b.t = "NaN" THEN FALSE
        ELSE IF a.t = "object" /\ b.t = "object" THEN a = b
        ELSE OfPrimitives(ToPrimitive(a), ToPrimitive(b))

-----------------------------------------------------------------------------
(* cleanQueryString and its helpers *)

\* s.replace(/\s+/g, " ")
\* (characters lo..hi of s: a white-space character that starts a run becomes
\* " ", one that continues a run disappears, any other character stays)
RECURSIVE CollapseRange(_, _, _)
CollapseRange(s, lo, hi) ==
    IF lo > hi THEN ""
    ELSE IF lo = hi
    THEN (IF At(s, lo) \notin SpaceSet THEN At(s, lo)
          ELSE IF At(s, lo - 1) \in SpaceSet THEN "" ELSE " ")
    ELSE LET m == (lo + hi) \div 2
         IN  CollapseRange(s, lo, m) \o CollapseRange(s, m + 1, hi)

CollapseWs(s) == CollapseRange(s, 1, Len(s))

\* the characters "." does not match and "$" (flag m) stops before
LineEnds == {"\n", "\r"}

\* s.replace(/--.*$/gm, ""): each "--" is removed with the rest of its line
RECURSIVE StripLineComments(_)
StripLineComments(s) ==
    LET i == IndexOf(s, "--")
        k == RunFrom(s, i, CharsOf(s) \ LineEnds)
    IN  IF i = 0 THEN s
        ELSE SubSeq(s, 1, i - 1) \o StripLineComments(SubSeq(s, i + k, Len(s)))

\* s.replace(/\/\*[\s\S]*?\*\//g, ""): each "/*" is removed up to the
\* nearest "*/" after it; an unclosed "/*" stays
RECURSIVE StripBlockComments(_)
StripBlockComments(s) ==
    LET i == IndexOf(s, "/*")
        after == SubSeq(s, i + 2, Len(s))
        j == IndexOf(after, "*/")
    IN  IF i = 0 \/ j = 0 THEN s
        ELSE SubSeq(s, 1, i - 1) \o StripBlockComments(SubSeq(after, j + 2, Len(after)))

\* s.replace(/\s*;\s*$/, ""): a ";" that ends the text (white space aside)
\* is removed with the white space around it
StripSemicolon(s) ==
    LET e == Len(s) - RunBack(s, Len(s), SpaceSet)
    IN  IF At(s, e) = ";"
        THEN SubSeq(s, 1, e - 1 - RunBack(s, e - 1, SpaceSet))
        ELSE s

\* the length of the shortest non-empty text at position b of s that is
\* followed by one of stops (or, with atEnd, by the end of s); 0 if none.
\* This is what a lazy (.+?) before the alternatives captures.
LazyLen(s, b, stops, atEnd) ==
    LET In(upper) ==
            MinOr0({l \in 1..(Len(s) - b + 1) :
                        \/ atEnd /\ b + l = Len(s) + 1
                        \/ \E t \in stops : StartsWithAt(upper, t, b + l)})
    IN  In(ToUpperCase(s))

AggregateNames == <<"SUM", "AVG", "COUNT", "MAX", "MIN">>

\* What the characters lo..hi of body do to the depth counter of
\* splitSelectFields: <<floor, net>> takes depth d to max(floor, d + net)
\* ("(" adds one, ")" takes one away but never below 0).
RECURSIVE DepthEffect(_, _, _)
DepthEffect(body, lo, hi) ==
    LET Compose(l, r) == <<IF r[1] >= l[1] + r[2] THEN r[1] ELSE l[1] + r[2], l[2] + r[2]>>
    IN  IF lo > hi THEN <<0, 0>>
        ELSE IF lo = hi
        THEN (IF At(body, lo) = "(" THEN <<0, 1>>
              ELSE IF At(body, lo) = ")" THEN <<0, -1>> ELSE <<0, 0>>)
        ELSE Compose(DepthEffect(body, lo, (lo + hi) \div 2),
                     DepthEffect(body, ((lo + hi) \div 2) + 1, hi))

\* depth when the loop of splitSelectFields reaches position i
SelectDepth(body, i) ==
    LET Apply(e) == IF e[1] >= e[2] THEN e[1] ELSE e[2]
    IN  Apply(DepthEffect(body, 1, i - 1))

\* splitSelectFields(selectBody): the loop from position from on; a piece
\* ends at each "," met at depth 0 (next is the first one, 0 if none), what
\* follows the last one is kept only if it is not blank
RECURSIVE splitLoop(_, _)
splitLoop(body, from) ==
    LET Last(cur) == IF cur # "" THEN <<cur>> ELSE <<>>
        At0(next) ==
            IF next = 0 THEN Last(Trim(SubSeq(body, from, Len(body))))
            ELSE <<Trim(SubSeq(body, from, next - 1))>> \o splitLoop(body, next + 1)
    IN  At0(MinOr0({i \in from..Len(body) : At(body, i) = "," /\ SelectDepth(body, i) = 0}))

splitSelectFields(selectBody) == splitLoop(selectBody, 1)

\* \b at position i of s
WordBoundary(s, i) == (At(s, i - 1) \in WordSet) # (At(s, i) \in WordSet)

\* field.split(/\s+/): k characters that are not white space, then w that are
RECURSIVE SplitWs(_)
SplitWs(s) ==
    LET Piece(k, w) ==
            IF w = 0 THEN <<s>>
            ELSE <<SubSeq(s, 1, k)>> \o SplitWs(SubSeq(s, k + w + 1, Len(s)))
        From(k) == Piece(k, RunFrom(s, k + 1, SpaceSet))
    IN  From(RunFrom(s, 1, CharsOf(s) \ SpaceSet))

\* field.match(/\s+AS\s+([A-Za-z0-9_]+)$/i): [index, alias] with index the
\* number of characters before the match, or <<>>.  The alias is the run
\* of identifier characters that ends the field (k characters precede it),
\* asEnd is where the "S" of AS must be, w1 the white space before AS.
AsSuffix(field) ==
    LET With(k, asEnd, w1) ==
            IF /\ k < Len(field) /\ asEnd < k /\ asEnd >= 2 /\ w1 > 0
               /\ ToUpperCase(SubSeq(field, asEnd - 1, asEnd)) = "AS"
            THEN [index |-> asEnd - 2 - w1, alias |-> SubSeq(field, k + 1, Len(field))]
            ELSE <<>>
        AsAt(k, asEnd) == With(k, asEnd, RunBack(field, asEnd - 2, SpaceSet))
        Before(k) == AsAt(k, k - RunBack(field, k, SpaceSet))
    IN  Before(Len(field) - RunBack(field, Len(field), WordSet))

\* CAST ( expr [AS] type [(size)] ) at position i of e: [len, text] (the
\* length of the match and its replacement $1), or <<>>.  The white space
\* after "(" is greedy (the longest run w that leads to a match), group 1
\* is lazy (then the shortest run without "," and ")" after which the rest
\* matches).
CastAt(e, i) ==
    LET \* the end of the match when p is where "(size))" or ")" must start,
        \* c where the ")" of the size would be, q2 where the last ")" would
        \* be; 0 if neither matches
        CloseAt(p, c, q2) ==
            IF At(e, p) = "(" /\ At(e, c) = ")" /\ At(e, q2) = ")" THEN q2
            ELSE IF At(e, p) = ")" THEN p
            ELSE 0
        SizeAt(p, c) == CloseAt(p, c, c + 1 + RunFrom(e, c + 1, SpaceSet))
        AfterType(p) == SizeAt(p, p + 1 + RunFrom(e, p + 1, CharsOf(e) \ {")"}))
        TypeName(t, id) ==
            IF id = 0 THEN 0 ELSE AfterType(t + id + RunFrom(e, t + id, SpaceSet))
        \* the end of the match when the type name starts at t, or 0
        TypeEnd(t) == TypeName(t, RunFrom(e, t, WordSet))
        \* the end of the match when what follows group 1 and its white
        \* space starts at p (AS is tried first, t is where the type starts
        \* after it); u is e in upper case
        AsAt(u, p, t) ==
            IF StartsWithAt(u, "AS", p) /\ t > p + 2 /\ TypeEnd(t) # 0
            THEN TypeEnd(t)
            ELSE TypeEnd(p)
        Rest(u, p) == AsAt(u, p, p + 2 + RunFrom(e, p + 2, SpaceSet))
        \* the end of the match when group 1 is the l characters at g1, or 0
        RestEnd(u, g1, l) == Rest(u, g1 + l + RunFrom(e, g1 + l, SpaceSet))
        \* the lengths group 1 can have at g1, the white space "(" can be
        \* followed by
        Lens(u, g1) ==
            {l \in 1..RunFrom(e, g1, CharsOf(e) \ {",", ")"}) : RestEnd(u, g1, l) # 0}
        Spaces(u, open) ==
            {w \in 0..RunFrom(e, open + 1, SpaceSet) : Lens(u, open + 1 + w) # {}}
        Match(u, g1, l) ==
            [len |-> RestEnd(u, g1, l) - i + 1, text |-> SubSeq(e, g1, g1 + l - 1)]
        Group(u, g1) == Match(u, g1, MinOr0(Lens(u, g1)))
        Spaced(u, open, Ws) ==
            IF WordBoundary(e, i) /\ StartsWithAt(u, "CAST", i) /\ At(e, open) = "(" /\ Ws # {}
            THEN Group(u, open + 1 + Max(Ws))
            ELSE <<>>
        Open(u, open) == Spaced(u, open, Spaces(u, open))
    IN  Open(ToUpperCase(e), i + 4 + RunFrom(e, i + 4, SpaceSet))

UnwrapNames == <<"LOWER", "UPPER", "TRIM", "LTRIM", "RTRIM">>

\* (LOWER|UPPER|TRIM|LTRIM|RTRIM) ( expr ) at position i of e: [len, text]
\* or <<>>; the text is the inner expression without the white space around
\* it (the last character of an inner expression that is all white space).
\* No two of the names start at one position.
UnwrapAt(e, i) ==
    LET Text(text) == IF Trim(text) = "" THEN At(text, Len(text)) ELSE Trim(text)
        Inner(open, inner) ==
            IF At(e, open) = "(" /\ inner > 0 /\ At(e, open + 1 + inner) = ")"
            THEN [len |-> open + 1 + inner - i + 1,
                  text |-> Text(SubSeq(e, open + 1, open + inner))]
            ELSE <<>>
        Open(open) == Inner(open, RunFrom(e, open + 1, CharsOf(e) \ {")"}))
        Named(name) == Open(i + Len(name) + RunFrom(e, i + Len(name), SpaceSet))
        Among(Names) ==
            IF WordBoundary(e, i) /\ Names # {} THEN Named(UnwrapNames[Max(Names)]) ELSE <<>>
        In(u) == Among({k \in 1..Len(UnwrapNames) : StartsWithAt(u, UnwrapNames[k], i)})
    IN  In(ToUpperCase(e))

\* SUBSTRING ( expr FROM ... ) or SUBSTRING ( expr , ... ) at position i of
\* e: [len, text] or <<>>.  The white space after "(" is greedy, group 1 is
\* lazy: the shortest text without ")" followed by white space and FROM,
\* or by optional white space and ","; the match ends at the next ")".
SubstringAt(e, i) ==
    LET \* p is where group 1 ends, w the white space that follows
        StopsAfter(u, p, w) ==
            \/ \E k \in 1..w : StartsWithAt(u, "FROM", p + k)
            \/ \E k \in 0..w : At(e, p + k) = ","
        Stops(u, p) == StopsAfter(u, p, RunFrom(e, p, SpaceSet))
        Lens(u, g1) == {l \in 1..RunFrom(e, g1, CharsOf(e) \ {")"}) : Stops(u, g1 + l)}
        Spaces(u, open) ==
            {w \in 0..RunFrom(e, open + 1, SpaceSet) : Lens(u, open + 1 + w) # {}}
        Match(g1, l, close) == [len |-> close - i + 1, text |-> SubSeq(e, g1, g1 + l - 1)]
        Group(u, g1, close) == Match(g1, MinOr0(Lens(u, g1)), close)
        Spaced(u, open, Ws, close) ==
            IF /\ WordBoundary(e, i) /\ StartsWithAt(u, "SUBSTRING", i)
               /\ At(e, open) = "(" /\ Ws # {} /\ close > open
            THEN Group(u, open + 1 + Max(Ws), close)
            ELSE <<>>
        Open(u, open) ==
            Spaced(u, open, Spaces(u, open), IndexOf(SubSeq(e, open + 1, Len(e)), ")") + open)
    IN  Open(ToUpperCase(e), i + 9 + RunFrom(e, i + 9, SpaceSet))

\* e.replace(/.../gi, "$1"): the matches are found left to right, each
\* search starting where the previous match ended.  which: 1 CAST,
\* 2 LOWER.., 3 SUBSTRING.
MatchAt(e, i, which) ==
    IF which = 1 THEN CastAt(e, i) ELSE IF which = 2 THEN UnwrapAt(e, i) ELSE SubstringAt(e, i)

\* (matches[i] is the match at position i, <<>> if none)
RECURSIVE ReplaceCalls(_, _, _)
ReplaceCalls(e, from, which) ==
    LET Replace(i, m) == SubSeq(e, from, i - 1) \o m.text \o ReplaceCalls(e, i + m.len, which)
        First(matches, i) == IF i = 0 THEN SubSeq(e, from, Len(e)) ELSE Replace(i, matches[i])
        Among(matches) == First(matches, MinOr0({i \in DOMAIN matches : matches[i] # <<>>}))
    IN  Among([i \in from..Len(e) |-> MatchAt(e, i, which)])

\* the three replacements of cleanSelectField, one after the other
RECURSIVE ReplaceAll(_, _)
ReplaceAll(e, which) ==
    IF which > 3 THEN e ELSE ReplaceAll(ReplaceCalls(e, 1, which), which + 1)

\* e.replace(/^\(\s*([A-Za-z0-9_.]+)\s*\)$/, "$1"): "( col )" becomes "col"
UnwrapParens(e) ==
    LET Name(inner) ==
            IF /\ Len(e) >= 3 /\ At(e, 1) = "(" /\ At(e, Len(e)) = ")"
               /\ inner # "" /\ AllIn(inner, WordSet \cup {"."})
            THEN inner
            ELSE e
    IN  Name(Trim(SubSeq(e, 2, Len(e) - 1)))

\* e.replace(/^\(\s*\(\s*([A-Za-z0-9_.]+)\s*\)\s*\)$/, "$1"): "((col))"
UnwrapParens2(e) ==
    LET Name(inner, name) ==
            IF Len(e) >= 5 /\ At(e, 1) = "(" /\ At(e, Len(e)) = ")" /\ name # inner
            THEN name
            ELSE e
        Twice(inner) == Name(inner, UnwrapParens(inner))
    IN  Twice(Trim(SubSeq(e, 2, Len(e) - 1)))

\* /^\s*(COUNT|SUM|AVG|MIN|MAX)\s*\(/i.test(expr)
LooksAggregate(expr) ==
    LET Test(u, p) ==
            \E k \in 1..Len(AggregateNames) :
                /\ StartsWithAt(u, AggregateNames[k], p)
                /\ At(expr, p + Len(AggregateNames[k])
                            + RunFrom(expr, p + Len(AggregateNames[k]), SpaceSet)) = "("
    IN  Test(ToUpperCase(expr), 1 + RunFrom(expr, 1, SpaceSet))

\* cleanSelectField(field): the alias is taken off (asMatch is the explicit
\* " AS alias", parts the field split at white space, whose last part is an
\* implicit alias if it holds no parenthesis or comma), the expression is
\* cleaned unless it is an aggregate, and the alias is put back
cleanSelectField(field) ==
    LET Implicit(asMatch, parts) ==
            /\ asMatch = <<>>
            /\ Len(parts) > 1
            /\ \A i \in 1..Len(parts[Len(parts)]) :
                    At(parts[Len(parts)], i) \notin {"(", ")", ","}
        AliasOf(asMatch, parts) ==
            IF asMatch # <<>> THEN asMatch.alias
            ELSE IF Implicit(asMatch, parts) THEN parts[Len(parts)]
            ELSE ""
        ExprOf(asMatch, parts) ==
            IF asMatch # <<>> THEN Trim(SubSeq(field, 1, asMatch.index))
            ELSE IF Implicit(asMatch, parts) THEN Join(SubSeq(parts, 1, Len(parts) - 1), " ")
            ELSE field
        Clean(expr) ==
            IF LooksAggregate(expr) THEN Trim(expr)
            ELSE Trim(UnwrapParens(UnwrapParens2(ReplaceAll(expr, 1))))
        WithAlias(out, alias) == IF alias # "" THEN out \o " AS " \o alias ELSE out
        Parts(asMatch, parts) == WithAlias(Clean(ExprOf(asMatch, parts)), AliasOf(asMatch, parts))
    IN  Parts(AsSuffix(field), SplitWs(field))

\* cleanQueryString(q).  cleaned is the text without comments, its white
\* space collapsed; l is the length of group 2 of
\* /^(SELECT\s+)(.+?)(\s+FROM\s+)([\s\S]*)$/i on it, 0 if it does not match
cleanQueryString(q) ==
    LET Fields(fields) == [i \in 1..Len(fields) |-> cleanSelectField(fields[i])]
        Select(cleaned, l) ==
            IF l = 0 THEN Trim(StripSemicolon(cleaned))
            ELSE Trim(StripSemicolon(CollapseWs(
                    SubSeq(cleaned, 1, 7)
                    \o Join(Fields(splitSelectFields(SubSeq(cleaned, 8, 7 + l))), ", ")
                    \o SubSeq(cleaned, 8 + l, 13 + l)
                    \o SubSeq(cleaned, 14 + l, Len(cleaned)))))
        Collapsed(cleaned) ==
            Select(cleaned,
                   IF StartsWith(ToUpperCase(cleaned), "SELECT ")
                   THEN LazyLen(cleaned, 8, {" FROM "}, FALSE) ELSE 0)
    IN  IF q = "" THEN ""
        ELSE Collapsed(Trim(CollapseWs(StripBlockComments(StripLineComments(q)))))

-----------------------------------------------------------------------------
(* parseWhere *)
(* A predicate tree is a comparison leaf [left, op, right] (right a number *)
(* or string value) or a Boolean node [op, clauses] with two clauses.      *)

Leaf(left, o, right) == [left |-> left, op |-> o, right |-> right]
Node(o, l, r) == [op |-> o, clauses |-> <<l, r>>]

\* the operator alternatives of the comparison pattern, in the order the
\* regular expression tries them
CompOps == <<">=", "<=", "!=", "=", ">", "<", "LIKE">>

QuoteSet == {"'", "\""}

\* (['"]?)([^'"]+?)\3$ matched at position p of c: the text of group 4, or
\* "" when there is no match.  A quote at p is tried first (group 4 is then
\* what lies between it and the same quote closing the text), then the
\* empty group 3 (group 4 is the rest of the text); group 4 is never empty
\* and holds no quote of either kind.
CompTail(c, p) ==
    LET n == Len(c)
        quoted == SubSeq(c, p + 1, n - 1)
        bare == SubSeq(c, p, n)
    IN  IF /\ p <= n
           /\ At(c, p) \in QuoteSet
           /\ n - 1 >= p + 1
           /\ At(c, n) = At(c, p)
           /\ \A i \in 1..Len(quoted) : At(quoted, i) \notin QuoteSet
        THEN quoted
        ELSE IF p <= n /\ \A i \in 1..Len(bare) : At(bare, i) \notin QuoteSet
        THEN bare
        ELSE ""

\* One attempt of the comparison pattern: group 1 is the l characters at s,
\* then the white space, the k-th operator (letters matched case-
\* insensitively), the white space, and the tail.  \s* is greedy; giving
\* white space back never helps (an operator does not start with a space,
\* and a tail that starts with a space matches only if the same tail without
\* it does), so only the longest runs are tried.
\* (upper is c in upper case.)
CompTry(c, upper, s, l, k) ==
    LET p1 == s + l + RunFrom(c, s + l, SpaceSet)
        o == CompOps[k]
        p2 == p1 + Len(o) + RunFrom(c, p1 + Len(o), SpaceSet)
    IN  IF StartsWithAt(upper, o, p1) /\ CompTail(c, p2) # ""
        THEN <<SubSeq(c, s, s + l - 1), o, CompTail(c, p2)>>
        ELSE <<>>

\* cond.match(/([\w.]+)\s*(>=|<=|!=|=|>|<|LIKE)\s*(['"]?)([^'"]+?)\3$/i):
\* <<group 1, group 2 in upper case, group 4>>, or <<>> for null.  The
\* leftmost start wins; at a start, the longest group 1 first ([\w.]+ is
\* greedy), then the operators in their listed order.
CompMatch(c) ==
    LET upper == ToUpperCase(c)
        Cands == UNION {{<<s, l, k>> : l \in 1..RunFrom(c, s, WordSet \cup {"."}),
                                       k \in 1..Len(CompOps)} : s \in 1..Len(c)}
        Matches == {x \in Cands : CompTry(c, upper, x[1], x[2], x[3]) # <<>>}
        Before(x, y) ==
            \/ x[1] < y[1]
            \/ x[1] = y[1] /\ x[2] > y[2]
            \/ x[1] = y[1] /\ x[2] = y[2] /\ x[3] <= y[3]
    IN  IF Matches = {} THEN <<>>
        ELSE LET best == CHOOSE x \in Matches : \A y \in Matches : Before(x, y)
             IN  CompTry(c, upper, best[1], best[2], best[3])

\* the nesting depth the scan of parseWhere has reached before position i
DepthBefore(c, i) ==
    Cardinality({j \in 1..(i - 1) : At(c, j) = "("})
    - Cardinality({j \in 1..(i - 1) : At(c, j) = ")"})

\* the scan of parseWhere: can the loop break at position i
SplitsAt(upper, i) ==
    /\ StartsWithAt(upper, " AND ", i) \/ StartsWithAt(upper, " OR ", i)
    /\ DepthBefore(upper, i) = 0

\* a parser that splits at the last top-level operator instead of the first
SplitIndexLast(c, upper) == Max({0} \cup {i \in 1..Len(c) : SplitsAt(upper, i)})

\* splitIndex (1-based; 0 for the source's -1); upper is c in upper case
SplitIndex(c, upper) == MinOr0({i \in 1..Len(c) : SplitsAt(upper, i)})

\* parseWhere(cond): Ok(tree) or the Error thrown
RECURSIVE parseWhere(_)
parseWhere(raw) ==
    LET \* the right operand of a comparison: a number if the text is one
        RightValue(cleaned, num) == IF num = NaN THEN Str(cleaned) ELSE num
        RightOf(cleaned) == RightValue(cleaned, StringToNumber(cleaned))
        \* the comparison, comp being the match of the comparison pattern
        Comparison(c, comp) ==
            IF comp # <<>> THEN Ok(Leaf(comp[1], comp[2], RightOf(Trim(comp[3]))))
            ELSE Throw("Unsupported WHERE clause: " \o c)
        \* { op, clauses: [parseWhere(left), parseWhere(right)] }: the error
        \* of the left clause is thrown before the right clause is parsed
        JoinClauses(opFound, l, r) ==
            IF ~l.ok THEN l
            ELSE IF ~r.ok THEN r
            ELSE Ok(Node(opFound, l.value, r.value))
        SplitAt(c, i, opFound) ==
            IF i # 0
            THEN JoinClauses(opFound,
                             parseWhere(Trim(SubSeq(c, 1, i - 1))),
                             parseWhere(Trim(SubSeq(c, i + Len(opFound) + 1, Len(c)))))
            ELSE Comparison(c, CompMatch(c))
        Scanned(c, upper, i) ==
            SplitAt(c, i, IF StartsWithAt(upper, " AND ", i) THEN "AND" ELSE "OR")
        Scan(c, upper) == Scanned(c, upper, SplitIndex(c, upper))
        Trimmed(c) ==
            IF StartsWith(c, "(") /\ EndsWith(c, ")")
            THEN parseWhere(Trim(SubSeq(c, 2, Len(c) - 1)))
            ELSE Scan(c, ToUpperCase(c))
    IN  Trimmed(Trim(raw))

-----------------------------------------------------------------------------
(* parseSQL *)

\* group 1 of /KW (.+?)(STOP|...|$)/i on s, "" when there is no match: the
\* match starts at the first position where kw is followed by at least one
\* more character
ClauseBody(s, kw, stops) ==
    LET Text(b) == SubSeq(s, b, b + LazyLen(s, b, stops, TRUE) - 1)
        From(i) == IF i = 0 THEN "" ELSE Text(i + Len(kw))
        In(upper) ==
            From(MinOr0({i \in 1..Len(s) : StartsWithAt(upper, kw, i) /\ i + Len(kw) <= Len(s)}))
    IN  In(ToUpperCase(s))

\* f.match(/^(.+?)\s+(?:AS\s+)?([\w.]+)$/i) on a select item: the field
\* record.  Group 1 is lazy: the shortest text followed by white space and
\* then, up to the end of f, "AS", white space and a name, or a name alone.
parseField(f) ==
    LET NameAt(p) == p <= Len(f) /\ RunFrom(f, p, WordSet \cup {"."}) = Len(f) - p + 1
        \* where the alias starts when the white space after group 1 ends
        \* before p and t is where a name would start after "AS" and its
        \* white space; 0 if there is no match (u is f in upper case)
        AliasAfter(u, p, t) ==
            IF StartsWithAt(u, "AS", p) /\ t > p + 2 /\ NameAt(t) THEN t
            ELSE IF NameAt(p) THEN p
            ELSE 0
        AliasFrom(u, p) == AliasAfter(u, p, p + 2 + RunFrom(f, p + 2, SpaceSet))
        AliasSpaced(u, l, w) == IF w = 0 THEN 0 ELSE AliasFrom(u, l + 1 + w)
        \* where the alias starts when group 1 has l characters, or 0
        AliasAt(u, l) == AliasSpaced(u, l, RunFrom(f, l + 1, SpaceSet))
        Field(u, l) ==
            IF l = 0 THEN [expr |-> f]
            ELSE [expr |-> Trim(SubSeq(f, 1, l)), alias |-> Trim(SubSeq(f, AliasAt(u, l), Len(f)))]
        In(u) == Field(u, MinOr0({l \in 1..Len(f) : AliasAt(u, l) # 0}))
    IN  In(ToUpperCase(f))

\* one part of the ORDER BY list
parseOrderPart(p) ==
    LET Part(words) ==
            [field |-> words[1],
             direction |-> IF Len(words) >= 2 /\ words[2] # "" THEN ToUpperCase(words[2]) ELSE "ASC"]
    IN  Part(Split(p, " "))

\* the digits of /LIMIT (\d+)/i, "" when there is no match
LimitDigits(s) ==
    LET From(i) == IF i = 0 THEN "" ELSE SubSeq(s, i + 6, i + 5 + RunFrom(s, i + 6, DigitSet))
        In(upper) ==
            From(MinOr0({i \in 1..Len(s) :
                            StartsWithAt(upper, "LIMIT ", i) /\ At(s, i + 6) \in DigitSet}))
    IN  In(ToUpperCase(s))

\* group 1 of /FROM ([^\s]+)(?: |$)/i, "" when there is no match
FromTarget(s) ==
    LET From(i) ==
            IF i = 0 THEN "" ELSE SubSeq(s, i + 5, i + 4 + RunFrom(s, i + 5, CharsOf(s) \ SpaceSet))
        In(upper) ==
            From(MinOr0({i \in 1..Len(s) :
                            StartsWithAt(upper, "FROM ", i) /\ At(s, i + 5) \notin SpaceSet \cup {""}}))
    IN  In(ToUpperCase(s))

TrimAll(parts) == [i \in 1..Len(parts) |-> Trim(parts[i])]

\* parseSQL(query): Ok(ast) or the Error thrown.  clean is the normalized
\* text, sel the length of group 1 of /^SELECT (.+?) FROM /i on it (0 without
\* a match), where what parseWhere returned for the WHERE text (Ok(0)
\* without one).  An optional clause that is absent is a property the AST
\* does not have.
parseSQL(q) ==
    LET Fields(fieldsRaw) == [i \in 1..Len(fieldsRaw) |-> parseField(fieldsRaw[i])]
        OrderParts(parts) == [i \in 1..Len(parts) |-> parseOrderPart(parts[i])]
        WithGroupBy(a, groupRaw) ==
            IF groupRaw # "" THEN ("groupBy" :> TrimAll(Split(groupRaw, ","))) @@ a ELSE a
        WithOrderBy(a, orderRaw) ==
            IF orderRaw # "" THEN ("orderBy" :> OrderParts(TrimAll(Split(orderRaw, ",")))) @@ a ELSE a
        WithLimit(a, digits) == IF digits # "" THEN ("limit" :> DigitsToNat(digits)) @@ a ELSE a
        Clauses(clean, a) ==
            Ok(WithLimit(WithOrderBy(WithGroupBy(a, ClauseBody(clean, "GROUP BY ", {"ORDER BY", "LIMIT"})),
                                     ClauseBody(clean, "ORDER BY ", {"LIMIT"})),
                         LimitDigits(clean)))
        WithWhere(clean, a, hasWhere, where) ==
            IF ~where.ok THEN where
            ELSE Clauses(clean, IF hasWhere THEN ("where" :> where.value) @@ a ELSE a)
        Where(clean, a, whereRaw) ==
            WithWhere(clean, a, whereRaw # "",
                      IF whereRaw # "" THEN parseWhere(Trim(whereRaw)) ELSE Ok(0))
        From(clean, fields, from) ==
            IF from = "" THEN Throw("Invalid query: missing FROM")
            ELSE Where(clean, [type |-> "select", fields |-> fields, from |-> from],
                       ClauseBody(clean, "WHERE ", {"GROUP BY", "ORDER BY", "LIMIT"}))
        Select(clean, sel) ==
            IF sel = 0 THEN Throw("Invalid query: missing SELECT or FROM")
            ELSE IF Includes(ToLowerCase(q), "join") THEN Throw("Invalid query: JOIN not supported")
            ELSE From(clean, Fields(TrimAll(Split(SubSeq(clean, 8, 7 + sel), ","))),
                      FromTarget(clean))
        Clean(clean) ==
            Select(clean,
                   IF StartsWith(ToUpperCase(clean), "SELECT ")
                   THEN LazyLen(clean, 8, {" FROM "}, FALSE) ELSE 0)
    IN  Clean(cleanQueryString(CollapseWs(q)))

-----------------------------------------------------------------------------
(* matchLike, evalCondition *)

\* the characters "." of a regular expression does not match
LineTerminators == {"\n", "\r"}

\* new RegExp("^" + escaped(pattern with % -> .*, _ -> .) + "$", "i").test(value):
\* every character of the pattern other than % and _ stands for itself
\* (the metacharacters are escaped), letters compared without case
RECURSIVE matchLike(_, _)
matchLike(value, pattern) ==
    LET First(pc, rest) ==
            IF pc = "%"
            THEN \E k \in 0..Len(value) :
                    /\ \A i \in 1..k : At(value, i) \notin LineTerminators
                    /\ matchLike(SubSeq(value, k + 1, Len(value)), rest)
            ELSE IF pc = "_"
            THEN /\ value # ""
                 /\ At(value, 1) \notin LineTerminators
                 /\ matchLike(SubSeq(value, 2, Len(value)), rest)
            ELSE /\ value # ""
                 /\ ToUpperCh(At(value, 1)) = ToUpperCh(pc)
                 /\ matchLike(SubSeq(value, 2, Len(value)), rest)
    IN  IF pattern = "" THEN value = ""
        ELSE First(At(pattern, 1), SubSeq(pattern, 2, Len(pattern)))

\* !cond for the second argument of evalCondition: no tree was given
NoCond == Undefined

\* the switch of evalCondition on a leaf; val is row[cond.left]
evalLeaf(val, c) ==
    CASE c.op = "=" -> Ok(LooseEq(val, c.right))
      [] c.op = "!=" -> Ok(~LooseEq(val, c.right))
      [] c.op = ">" -> Ok(LessThan(c.right, val) = "true")
      [] c.op = "<" -> Ok(LessThan(val, c.right) = "true")
      [] c.op = ">=" -> Ok(LessThan(val, c.right) = "false")
      [] c.op = "<=" -> Ok(LessThan(c.right, val) = "false")
      [] c.op = "LIKE" ->
            Ok(matchLike(JsString(IF IsNullish(val) THEN Str("") ELSE val), JsString(c.right)))
      [] OTHER -> Throw("Unsupported operator: " \o c.op)

\* evalCondition(row, cond): Ok(boolean) or the Error thrown.  every() and
\* some() stop at the first clause that decides them, so a later clause is
\* not evaluated (and cannot throw).
RECURSIVE evalCondition(_, _)
RECURSIVE evalClauses(_, _, _, _)
\* a loop over the clauses that lets clause k decide alone
evalFirstClause(row, clauses, k, stopAt) ==
    IF k > Len(clauses) THEN Ok(~stopAt) ELSE evalCondition(row, clauses[k])

\* (the loop from clause k on; r is what clause k evaluated to; stopAt is
\* the value that ends the loop: false for every(), true for some())
evalClauses(row, clauses, k, stopAt) ==
    LET Next(r) ==
            IF ~r.ok THEN r
            ELSE IF r.value = stopAt THEN Ok(stopAt)
            ELSE evalClauses(row, clauses, k + 1, stopAt)
    IN  IF k > Len(clauses) THEN Ok(~stopAt)
        ELSE Next(evalCondition(row, clauses[k]))

evalCondition(row, c) ==
    IF c = NoCond THEN Ok(TRUE)
    ELSE IF c.op = "AND" THEN evalClauses(row, c.clauses, 1, FALSE)
    ELSE IF c.op = "OR" THEN evalClauses(row, c.clauses, 1, TRUE)
    ELSE evalLeaf(Prop(row, c.left), c)

-----------------------------------------------------------------------------
(* parseAggregateExpr, evalSimpleExpr, computeAggregatesForGroup *)

\* expr.match(/^\s*(SUM|AVG|COUNT|MAX|MIN)\s*\(\s*([\w.*]+)\s*\)\s*$/i):
\* [fn, col], or <<>> for null
\* (e is the expression trimmed; no two of the names start a text; open is
\* where "(" must be, col what lies between it and the ")" that ends e)
parseAggregateExpr(expr) ==
    LET Call(e, fn, open, col) ==
            IF /\ At(e, open) = "("
               /\ EndsWith(e, ")")
               /\ Len(e) > open
               /\ col # ""
               /\ AllIn(col, WordSet \cup {".", "*"})
            THEN [fn |-> fn, col |-> col]
            ELSE <<>>
        Open(e, fn, open) == Call(e, fn, open, Trim(SubSeq(e, open + 1, Len(e) - 1)))
        Named(e, fn) == Open(e, fn, Len(fn) + 1 + RunFrom(e, Len(fn) + 1, SpaceSet))
        Among(e, Names) == IF Names = {} THEN <<>> ELSE Named(e, AggregateNames[Max(Names)])
        In(e, u) == Among(e, {k \in 1..Len(AggregateNames) : StartsWith(u, AggregateNames[k])})
        Trimmed(e) == In(e, ToUpperCase(e))
    IN  Trimmed(Trim(expr))

\* the loop of evalSimpleExpr over the parts of a dotted key
RECURSIVE WalkPath(_, _)
WalkPath(cur, parts) ==
    IF Len(parts) = 0 THEN cur
    ELSE IF IsNullish(cur) THEN Undefined
    ELSE WalkPath(ValueProp(cur, Head(parts)), Tail(parts))

evalSimpleExpr(row, expr) ==
    LET Key(key) ==
            IF Includes(key, ".") THEN WalkPath(Obj(row), Split(key, "."))
            ELSE Prop(row, key)
    IN  Key(Trim(expr))

\* out[key] = value on an output row
SetProp(o, key, value) == (key :> value) @@ o

EmptyRow == <<>>

\* rows.map(Number(evalSimpleExpr(r, col))) without the NaN ones
RECURSIVE NumericVals(_, _)
NumericVals(rows, col) ==
    LET NotNaN(n) == IF n = NaN THEN <<>> ELSE <<n>>
    IN  IF Len(rows) = 0 THEN <<>>
        ELSE NotNaN(JsNumber(evalSimpleExpr(Head(rows), col))) \o NumericVals(Tail(rows), col)

NumAdd(a, b) == Frac(a.n * b.d + b.n * a.d, a.d * b.d)

RECURSIVE SumVals(_)
SumVals(vals) == IF Len(vals) = 0 THEN Num(0) ELSE NumAdd(Head(vals), SumVals(Tail(vals)))

\* Math.max(...vals), Math.min(...vals) of a non-empty list
MaxVal(vals) ==
    vals[CHOOSE i \in 1..Len(vals) : \A j \in 1..Len(vals) : ~NumLess(vals[i], vals[j])]
MinVal(vals) ==
    vals[CHOOSE i \in 1..Len(vals) : \A j \in 1..Len(vals) : ~NumLess(vals[j], vals[i])]

\* the COUNT(col) reduce: rows whose value is not null or undefined
\* (Number(v) ? 1 : (v != null ? 1 : 0))
RECURSIVE CountCol(_, _)
CountCol(rows, col) ==
    LET One(v, n) == IF n # NaN /\ n # Num(0) THEN 1 ELSE IF ~IsNullish(v) THEN 1 ELSE 0
        Value(v) == One(v, JsNumber(v))
    IN  IF Len(rows) = 0 THEN 0
        ELSE Value(evalSimpleExpr(Head(rows), col)) + CountCol(Tail(rows), col)

\* the value one aggregate request yields over rows, vals being the numeric
\* values of its column
aggregateValue(rows, fn, col) ==
    LET Quotient(sum, count) == Frac(sum.n, sum.d * count)
        Over(vals) ==
            CASE fn = "COUNT" -> Num(IF col = "*" THEN Len(rows) ELSE CountCol(rows, col))
              [] fn = "SUM" -> SumVals(vals)
              [] fn = "AVG" -> IF Len(vals) # 0 THEN Quotient(SumVals(vals), Len(vals)) ELSE Null
              [] fn = "MAX" -> IF Len(vals) # 0 THEN MaxVal(vals) ELSE Null
              [] fn = "MIN" -> IF Len(vals) # 0 THEN MinVal(vals) ELSE Null
              [] OTHER -> Null
    IN  Over(NumericVals(rows, col))

\* aggregates: a sequence of [as, fn, col]
RECURSIVE computeAggregatesForGroup(_, _)
computeAggregatesForGroup(rows, aggregates) ==
    IF Len(aggregates) = 0 THEN EmptyRow
    ELSE SetProp(computeAggregatesForGroup(rows, SubSeq(aggregates, 1, Len(aggregates) - 1)),
                 aggregates[Len(aggregates)].as,
                 aggregateValue(rows, aggregates[Len(aggregates)].fn,
                                aggregates[Len(aggregates)].col))

-----------------------------------------------------------------------------
(* orderRows *)

\* the inner compare of orderRows, as its sign: -1, 0 or 1
compare(a, b, field) ==
    LET Strings(sa, sb) == IF StrLess(sa, sb) THEN -1 ELSE IF StrLess(sb, sa) THEN 1 ELSE 0
        Numbers(na, nb) == IF NumLess(na, nb) THEN -1 ELSE IF NumLess(nb, na) THEN 1 ELSE 0
        As(va, vb, na, nb) ==
            IF na # NaN /\ nb # NaN THEN Numbers(na, nb)
            ELSE Strings(ToLowerCase(JsString(va)), ToLowerCase(JsString(vb)))
        Values(va, vb) ==
            IF IsNullish(va) /\ IsNullish(vb) THEN 0
            ELSE IF IsNullish(va) THEN -1
            ELSE IF IsNullish(vb) THEN 1
            ELSE As(va, vb, JsNumber(va), JsNumber(vb))
    IN  Values(Prop(a, field), Prop(b, field))

\* the comparator handed to sort: the first key that tells r1 and r2 apart
RECURSIVE rowCompare(_, _, _)
rowCompare(r1, r2, orderBy) ==
    LET Directed(cmp, dir) ==
            IF cmp # 0 THEN cmp * dir ELSE rowCompare(r1, r2, Tail(orderBy))
    IN  IF Len(orderBy) = 0 THEN 0
        ELSE Directed(compare(r1, r2, Head(orderBy).field),
                      IF Head(orderBy).direction = "DESC" THEN -1 ELSE 1)

\* Array.prototype.sort is stable: x goes after the last element of the
\* sorted prefix that is not greater than it (insertion from the right)
RECURSIVE InsertSorted(_, _, _)
InsertSorted(sorted, x, orderBy) ==
    IF Len(sorted) = 0 THEN <<x>>
    ELSE IF rowCompare(sorted[Len(sorted)], x, orderBy) > 0
    THEN InsertSorted(SubSeq(sorted, 1, Len(sorted) - 1), x, orderBy) \o <<sorted[Len(sorted)]>>
    ELSE sorted \o <<x>>

\* a sort that leaves the rows as they are
orderRowsKept(rows, orderBy) == rows

RECURSIVE orderRows(_, _)
orderRows(rows, orderBy) ==
    IF Len(rows) = 0 THEN <<>>
    ELSE InsertSorted(orderRows(SubSeq(rows, 1, Len(rows) - 1), orderBy),
                      rows[Len(rows)], orderBy)

-----------------------------------------------------------------------------
(* executeAST *)

Has(o, key) == key \in DOMAIN o

\* rows.slice(0, n)
Slice0(rows, n) == SubSeq(rows, 1, IF n < Len(rows) THEN n ELSE Len(rows))

\* the own property names of an object in code-unit order of the names (the
\* model's nested objects list their properties in that order)
RECURSIVE SortedKeys(_)
SortedKeys(keys) ==
    LET From(k) == <<k>> \o SortedKeys(keys \ {k})
    IN  IF keys = {} THEN <<>>
        ELSE From(CHOOSE k \in keys : \A j \in keys : ~StrLess(j, k))

\* the JSON form of a string: quoted, with " and \ escaped
RECURSIVE JsonEscape(_)
JsonEscape(s) ==
    LET Ch(c) ==
            IF c \in {"\"", "\\"} THEN "\\" \o c
            ELSE IF c = "\n" THEN "\\n"
            ELSE c
    IN  IF s = "" THEN "" ELSE Ch(At(s, 1)) \o JsonEscape(SubSeq(s, 2, Len(s)))

\* JSON.stringify(v) for null and objects (properties whose value is
\* undefined are left out)
RECURSIVE JsonStringify(_)
RECURSIVE JsonMembers(_, _)
JsonMembers(o, keys) ==
    IF Len(keys) = 0 THEN <<>>
    ELSE (IF o[Head(keys)].t = "undefined" THEN <<>>
          ELSE <<"\"" \o JsonEscape(Head(keys)) \o "\":" \o JsonStringify(o[Head(keys)])>>)
         \o JsonMembers(o, Tail(keys))

JsonStringify(v) ==
    CASE v.t = "null" -> "null"
      [] v.t = "NaN" -> "null"
      [] v.t = "number" -> NumberToString(v)
      [] v.t = "string" -> "\"" \o JsonEscape(v.s) \o "\""
      [] v.t = "object" -> "{" \o Join(JsonMembers(v.o, SortedKeys(DOMAIN v.o)), ",") \o "}"

\* one part of a group key: typeof v === "object" ? JSON.stringify(v) : String(v)
keyPart(row, k) ==
    LET Of(v) == IF TypeOf(v) = "object" THEN JsonStringify(v) ELSE JsString(v)
    IN  Of(evalSimpleExpr(row, k))

\* the group key of a row
groupKey(row, groupKeys) ==
    Join([i \in 1..Len(groupKeys) |-> keyPart(row, groupKeys[i])], "||")

\* data.filter((r) => evalCondition(r, where)): Ok(rows) or the first throw
\* (keep is what the predicate returned on row, rest the filtered tail)
RECURSIVE filterRows(_, _)
filterRows(rows, where) ==
    LET Join2(row, keep, rest) ==
            IF ~keep.ok THEN keep
            ELSE IF ~rest.ok THEN rest
            ELSE Ok((IF keep.value THEN <<row>> ELSE <<>>) \o rest.value)
    IN  IF Len(rows) = 0 THEN Ok(<<>>)
        ELSE Join2(Head(rows), evalCondition(Head(rows), where), filterRows(Tail(rows), where))

\* step 2 of executeAST: the descriptor of one select item (agg is what
\* parseAggregateExpr returned, alias is f.alias || f.expr)
fieldDescriptor(f) ==
    LET Describe(agg, alias) ==
            IF agg # <<>>
            THEN [original |-> f.expr, alias |-> alias, aggregate |-> TRUE, fn |-> agg.fn, col |-> agg.col]
            ELSE [original |-> f.expr, alias |-> alias, aggregate |-> FALSE, col |-> Trim(f.expr)]
    IN  Describe(parseAggregateExpr(f.expr),
                 IF "alias" \in DOMAIN f /\ f.alias # "" THEN f.alias ELSE f.expr)

\* the tests of fields.filter(...)
IsAggregate(f) == f.aggregate
IsPlain(f) == ~f.aggregate

\* aggregates.map(a => ({ as: a.alias, fn: a.fn, col: a.col }))
aggRequests(aggregates) ==
    [i \in 1..Len(aggregates) |->
        [as |-> aggregates[i].alias, fn |-> aggregates[i].fn, col |-> aggregates[i].col]]

\* a grouping that keeps only the first row of each group
addFirstToGroups(groups, row, key) ==
    IF \E g \in 1..Len(groups) : groups[g].key = key
    THEN groups
    ELSE groups \o <<[key |-> key, rows |-> <<row>>]>>

\* the groups Map, in insertion order: a sequence of [key, rows]
addToGroups(groups, row, key) ==
    IF \E g \in 1..Len(groups) : groups[g].key = key
    THEN [g \in 1..Len(groups) |->
            IF groups[g].key = key
            THEN [key |-> key, rows |-> groups[g].rows \o <<row>>]
            ELSE groups[g]]
    ELSE groups \o <<[key |-> key, rows |-> <<row>>]>>

RECURSIVE buildGroups(_, _)
buildGroups(filtered, groupKeys) ==
    IF Len(filtered) = 0 THEN <<>>
    ELSE addToGroups(buildGroups(SubSeq(filtered, 1, Len(filtered) - 1), groupKeys),
                     filtered[Len(filtered)],
                     groupKey(filtered[Len(filtered)], groupKeys))

\* resultRow after the loop over the group-by fields
RECURSIVE groupByProps(_, _)
groupByProps(first, groupKeys) ==
    IF Len(groupKeys) = 0 THEN EmptyRow
    ELSE SetProp(groupByProps(first, SubSeq(groupKeys, 1, Len(groupKeys) - 1)),
                 groupKeys[Len(groupKeys)],
                 evalSimpleExpr(first, groupKeys[Len(groupKeys)]))

\* Object.assign(target, source)
ObjectAssign(target, source) == source @@ target

\* resultRow after the loop over the non-aggregated select items (GROUP
\* BY): a group key is copied to its alias, any other column is read from
\* the first row
RECURSIVE plainGroupProps(_, _, _, _)
plainGroupProps(resultRow, plain, groupKeys, first) ==
    LET One(f) ==
            IF \E i \in 1..Len(groupKeys) : groupKeys[i] = f.col
            THEN (IF f.alias # "" /\ f.alias # f.col
                  THEN SetProp(resultRow, f.alias, Prop(resultRow, f.col))
                  ELSE resultRow)
            ELSE SetProp(resultRow, f.alias, evalSimpleExpr(first, f.col))
    IN  IF Len(plain) = 0 THEN resultRow
        ELSE plainGroupProps(One(Head(plain)), Tail(plain), groupKeys, first)

\* the result row of one group
groupRow(rows, groupKeys, fields) ==
    plainGroupProps(
        ObjectAssign(groupByProps(rows[1], groupKeys),
                     computeAggregatesForGroup(rows, aggRequests(SelectSeq(fields, IsAggregate)))),
        SelectSeq(fields, IsPlain), groupKeys, rows[1])

\* results of the GROUP BY branch, before ORDER BY and LIMIT
groupResults(filtered, groupKeys, fields) ==
    LET Rows2(groups) == [g \in 1..Len(groups) |-> groupRow(groups[g].rows, groupKeys, fields)]
    IN  Rows2(buildGroups(filtered, groupKeys))

\* resultRow after the loop over the non-aggregated select items (no GROUP BY)
RECURSIVE plainGlobalProps(_, _, _)
plainGlobalProps(resultRow, plain, filtered) ==
    IF Len(plain) = 0 THEN resultRow
    ELSE plainGlobalProps(
            SetProp(resultRow, Head(plain).alias,
                    IF Len(filtered) # 0 THEN evalSimpleExpr(filtered[1], Head(plain).col) ELSE Null),
            Tail(plain), filtered)

\* the single row of the branch with aggregates and no GROUP BY
globalRow(filtered, fields) ==
    plainGlobalProps(
        ObjectAssign(EmptyRow,
                     computeAggregatesForGroup(filtered, aggRequests(SelectSeq(fields, IsAggregate)))),
        SelectSeq(fields, IsPlain), filtered)

\* a projection that reads every column as a top-level key
RECURSIVE projectRowFlat(_, _)
projectRowFlat(row, fields) ==
    IF Len(fields) = 0 THEN EmptyRow
    ELSE SetProp(projectRowFlat(row, SubSeq(fields, 1, Len(fields) - 1)),
                 fields[Len(fields)].alias, Prop(row, fields[Len(fields)].col))

\* the projection of one row (simple SELECT)
RECURSIVE projectRow(_, _)
projectRow(row, fields) ==
    IF Len(fields) = 0 THEN EmptyRow
    ELSE SetProp(projectRow(row, SubSeq(fields, 1, Len(fields) - 1)),
                 fields[Len(fields)].alias, evalSimpleExpr(row, fields[Len(fields)].col))

\* executeAST(ast, data): Ok(rows) or the Error thrown
executeAST(a, rows) ==
    LET \* ast.orderBy && ast.orderBy.length
        HasOrderBy == Has(a, "orderBy") /\ Len(a.orderBy) # 0
        Ordered(rs) == IF HasOrderBy THEN orderRows(rs, a.orderBy) ELSE rs
        \* if (ast.limit != null) rs.slice(0, ast.limit)
        Limited(rs) == IF Has(a, "limit") THEN Slice0(rs, a.limit) ELSE rs
        \* if (ast.limit) rs.slice(0, ast.limit): a limit of 0 is not applied
        TruthyLimited(rs) == IF Has(a, "limit") /\ a.limit # 0 THEN Slice0(rs, a.limit) ELSE rs
        Projected(filtered, fields) ==
            [i \in 1..Len(filtered) |-> projectRow(filtered[i], fields)]
        \* steps 3 to 5
        Fields(filtered, fields) ==
            IF Has(a, "groupBy") /\ Len(a.groupBy) > 0
            THEN Limited(Ordered(groupResults(filtered, TrimAll(a.groupBy), fields)))
            ELSE IF Len(SelectSeq(fields, IsAggregate)) > 0
            THEN Limited(<<globalRow(filtered, fields)>>)
            ELSE TruthyLimited(Ordered(Projected(filtered, fields)))
        Filtered(filtered) ==
            IF ~filtered.ok THEN filtered
            ELSE Ok(Fields(filtered.value, [i \in 1..Len(a.fields) |-> fieldDescriptor(a.fields[i])]))
    IN  IF a.type # "select" THEN Throw("Only SELECT supported")
        ELSE Filtered(IF Has(a, "where") THEN filterRows(rows, a.where) ELSE Ok(rows))

\* executeAST(ast, data) as it acts on the heap.  The lists of the call are
\* named by the place that allocates them: "data" is the list handed in,
\* "filtered" the result of data.filter() or data.slice(), "results" the
\* list of group rows, "single" the literal [resultRow], "projected" the
\* result of filtered.map(), "rowsCopy" the rows.slice() of orderRows,
\* "sliced" the result of slice(0, limit).  A heap h holds the lists, the
\* names of the objects written in place, and the list at hand (cur).
\* The call yields what "data" holds at the end, the list returned and the
\* objects written.
executeHeapInPlace(a, rows) ==
    [data |-> executeAST(a, rows).value, returned |-> "data", written |-> {"data"}]

executeHeap(a, rows) ==
    LET New(h, id, items) ==
            [lists |-> (id :> items) @@ h.lists, written |-> h.written, cur |-> id]
        InPlace(h, ids, items) ==
            [lists |-> [h.lists EXCEPT ![h.cur] = items], written |-> h.written \cup ids, cur |-> h.cur]
        \* orderRows: rowsCopy = rows.slice(); rowsCopy.sort(...)
        Order(h) ==
            IF Has(a, "orderBy") /\ Len(a.orderBy) # 0
            THEN InPlace(New(h, "rowsCopy", h.lists[h.cur]), {"rowsCopy"},
                         orderRows(h.lists[h.cur], a.orderBy))
            ELSE h
        Limit(h) == IF Has(a, "limit") THEN New(h, "sliced", Slice0(h.lists[h.cur], a.limit)) ELSE h
        TruthyLimit(h) ==
            IF Has(a, "limit") /\ a.limit # 0 THEN New(h, "sliced", Slice0(h.lists[h.cur], a.limit)) ELSE h
        \* results = []; the rows are pushed to the lists of the groups Map,
        \* the properties set on a new resultRow, the rows pushed to results
        Groups(h, fields) ==
            Limit(Order(InPlace(New(h, "results", <<>>), {"groups", "resultRow", "results"},
                                groupResults(h.lists["filtered"], TrimAll(a.groupBy), fields))))
        Global(h, fields) ==
            Limit(InPlace(New(h, "single", <<globalRow(h.lists["filtered"], fields)>>),
                          {"resultRow"}, <<globalRow(h.lists["filtered"], fields)>>))
        Plain(h, fields) ==
            TruthyLimit(Order(InPlace(New(h, "projected", <<>>), {"out"},
                [i \in 1..Len(h.lists["filtered"]) |-> projectRow(h.lists["filtered"][i], fields)])))
        Done(h) == [data |-> h.lists["data"], returned |-> h.cur, written |-> h.written]
        Fields(h, fields) ==
            IF Has(a, "groupBy") /\ Len(a.groupBy) > 0 THEN Done(Groups(h, fields))
            ELSE IF Len(SelectSeq(fields, IsAggregate)) > 0 THEN Done(Global(h, fields))
            ELSE Done(Plain(h, fields))
        Filtered(h, filtered) ==
            IF ~filtered.ok THEN Done(h)
            ELSE Fields(New(h, "filtered", filtered.value),
                        [i \in 1..Len(a.fields) |-> fieldDescriptor(a.fields[i])])
        Start(h) ==
            IF a.type # "select" THEN Done(h)
            ELSE Filtered(h, IF Has(a, "where") THEN filterRows(rows, a.where) ELSE Ok(rows))
    IN  Start([lists |-> ("data" :> rows), written |-> {}, cur |-> "none"])

-----------------------------------------------------------------------------
(* The fluent builder (class Quarr).  A predicate handed to where is a     *)
(* function of the item; the model takes the predicates item => item[left] *)
(* op right, written as leaves.                                            *)

\* Quarr.execute() on the fields q: the lists it can return.  The comparator
\* handed to sort gives 0 for two values when neither is less than the
\* other; where it is not a consistent comparator for the records at hand
\* the order sort leaves is implementation-defined, any permutation.
execute(q) ==
    LET Passes(item) ==
            \A i \in 1..Len(q.filters) :
                evalLeaf(Prop(item, q.filters[i].left), q.filters[i]).value
        Filtered == IF Len(q.filters) # 0 THEN SelectSeq(q.data, Passes) ELSE q.data
        Cmp(a, b) ==
            IF LessThan(Prop(a, q.sortField), Prop(b, q.sortField)) = "true"
            THEN (IF q.sortOrder = "asc" THEN -1 ELSE 1)
            ELSE IF LessThan(Prop(b, q.sortField), Prop(a, q.sortField)) = "true"
            THEN (IF q.sortOrder = "asc" THEN 1 ELSE -1)
            ELSE 0
        Consistent(items) ==
            \A i, j, k \in 1..Len(items) :
                (Cmp(items[i], items[j]) <= 0 /\ Cmp(items[j], items[k]) <= 0)
                    => Cmp(items[i], items[k]) <= 0
        \* the place of items[i] after a stable sort
        Place(items, i) ==
            Cardinality({j \in 1..Len(items) :
                \/ Cmp(items[j], items[i]) < 0
                \/ Cmp(items[j], items[i]) = 0 /\ j <= i})
        Stable(items) ==
            [n \in 1..Len(items) |-> items[CHOOSE i \in 1..Len(items) : Place(items, i) = n]]
        Orderings(items) ==
            {[n \in 1..Len(items) |-> items[f[n]]] :
                f \in {g \in [1..Len(items) -> 1..Len(items)] :
                         \A a, b \in 1..Len(items) : g[a] = g[b] => a = b}}
        Sorted(items) ==
            IF ~Has(q, "sortField") THEN {items}
            ELSE IF Consistent(items) THEN {Stable(items)}
            ELSE Orderings(items)
        Skipped(items) ==
            IF q.skipCount # 0 THEN SubSeq(items, q.skipCount + 1, Len(items)) ELSE items
        Limited(items) == IF Has(q, "limitCount") THEN Slice0(items, q.limitCount) ELSE items
        Selected(items) ==
            IF Has(q, "selectedFields")
            THEN [n \in 1..Len(items) |->
                    [f \in {q.selectedFields[i] : i \in 1..Len(q.selectedFields)} |->
                        Prop(items[n], f)]]
            ELSE items
    IN  {Selected(Limited(Skipped(items))) : items \in Sorted(Filtered)}

\* Quarr.sum(field) on the fields q: the value of the reduce with "+", which
\* adds numbers and joins text, or the Error thrown
sum(q, field) ==
    LET Plus(acc, v) ==
            IF IsStr(ToPrimitive(acc)) \/ IsStr(ToPrimitive(v))
            THEN Str(JsString(acc) \o JsString(v))
            ELSE IF JsNumber(acc) = NaN \/ JsNumber(v) = NaN THEN NaN
            ELSE NumAdd(JsNumber(acc), JsNumber(v))
        RECURSIVE Reduce(_)
        Reduce(n) == IF n = 0 THEN Num(0) ELSE Plus(Reduce(n - 1), Prop(q.data[n], field))
    IN  IF Len(q.data) = 0 \/ TypeOf(Prop(q.data[1], field)) # "number"
        THEN Throw("Field \"" \o field \o "\" must be numeric for sum operation.")
        ELSE Ok(Reduce(Len(q.data)))

\* Quarr.avg(field): this.sum(field) / this.data.length
avg(q, field) ==
    LET Divided(total) ==
            IF JsNumber(total) = NaN THEN NaN
            ELSE Frac(JsNumber(total).n, JsNumber(total).d * Len(q.data))
    IN  IF Len(q.data) = 0 \/ TypeOf(Prop(q.data[1], field)) # "number"
        THEN Throw("Field \"" \o field \o "\" must be numeric for avg operation.")
        ELSE Ok(Divided(sum(q, field).value))

-----------------------------------------------------------------------------
(* Inputs *)

MaxRows == 2        \* the longest data list handed to executeAST
MaxChain == 3       \* the most comparisons in a WHERE chain handed to parseWhere
MaxClauses == 2     \* the most clauses of a hand-built Boolean node
MaxSorted == 3      \* the longest list handed to orderRows on its own
MaxCalls == 2       \* the most calls made on one builder after Quarr.from

\* the rows data lists are made of
Rows == {
    [name |-> Str("Bob"), age |-> Num(30), g |-> Num(1), h |-> Str("c"), v |-> Num(5)],
    [name |-> Str("Ann"), age |-> Num(20), g |-> Str("1"), h |-> Str("c"), v |-> Null],
    [name |-> Str("Al"), g |-> Null, v |-> Str("x"), a |-> Obj([b |-> Num(7)])],
    [g |-> Str("null"), v |-> Str("3"), a |-> Obj([c |-> Num(1)])],
    [g |-> Str("a||b"), h |-> Str("c"), v |-> Num(-2), age |-> Str("40")],
    ("a.b" :> Num(9)) @@ [g |-> Str("a"), h |-> Str("b||c")],
    [g |-> Obj([b |-> Num(1)]), v |-> Num(4)],
    [g |-> Str("{\"b\":1}"), v |-> Null]
}

RECURSIVE SeqsUpTo(_, _)
SeqsUpTo(S, n) ==
    IF n = 0 THEN {<<>>}
    ELSE LET shorter == SeqsUpTo(S, n - 1)
         IN  shorter \cup {Append(d, r) : d \in {x \in shorter : Len(x) = n - 1}, r \in S}

DataSets == SeqsUpTo(Rows, MaxRows)

\* the texts handed to parseSQL
Queries == {
    "SELECT * FROM t",
    "SELECT name FROM t WHERE age > 25",
    "SELECT name AS n, a.b FROM t",
    "select name who, age from t where name like 'A%' or age >= 30",
    "SELECT name AS x, age AS x FROM t",
    "SELECT name FROM t WHERE a.b > 5",
    "SELECT g, COUNT(*) AS total FROM t GROUP BY g",
    "SELECT g, h, COUNT(*) AS total FROM t GROUP BY g, h",
    "SELECT g, COUNT(*) AS total FROM t WHERE v != 5 GROUP BY g",
    "SELECT g, COUNT(*) AS n, SUM(v) AS s, AVG(v) AS m, MAX(v) AS hi, MIN(v) AS lo FROM t GROUP BY g",
    "SELECT COUNT(*) AS n, SUM(v) AS s, AVG(v) AS m, MAX(v) AS hi, MIN(v) AS lo FROM t WHERE g != 1",
    "SELECT name, age FROM t ORDER BY age DESC LIMIT 1",
    "SELECT name, age FROM t ORDER BY age DESC",
    "SELECT g, v FROM t ORDER BY g, v desc",
    "SELECT g, COUNT(*) AS total FROM t GROUP BY g ORDER BY total DESC",
    "SELECT g, COUNT(*) AS total FROM t GROUP BY g LIMIT 1",
    "SELECT COUNT(*) AS n FROM t LIMIT 0",
    "SELECT name FROM t LIMIT 0",
    "SELECT name FROM t LIMIT -1",
    "SELECT MEDIAN(v) AS med FROM t",
    "SELECT joined_at FROM t",
    "SELECT FN(a, b) AS x, name FROM t",
    "SELECT FN(g, v) FROM t",
    "SELECT name FROM t WHERE age > 25",
    "SELECT name FROM t WHERE age > 25;",
    "SELECT  name\nFROM   t\n  WHERE age > 25 ;\n",
    "SELECT name FROM t /* rows */ WHERE age > 25",
    "SELECT name /* who */\nFROM t\nWHERE age > 25",
    "SELECT name -- who\nFROM t\nWHERE age > 25",
    "SELECT name\nFROM t -- rows\nWHERE age > 25",
    "SELECT name\nFROM t\nWHERE age > 25 -- adults",
    "SELECT name FROM t WHERE age > 25;",
    "SELECT name FROM t JOIN u",
    "SELECT name FROM t WHERE age",
    "UPDATE t"
}

\* the comparisons WHERE texts are made of, each with the leaf it denotes
Comps == <<
    [text |-> "a = 1", leaf |-> Leaf("a", "=", Num(1))],
    [text |-> "name LIKE 'A%'", leaf |-> Leaf("name", "LIKE", Str("A%"))],
    [text |-> "cost>=500", leaf |-> Leaf("cost", ">=", Num(500))],
    [text |-> "a.b != \"x y\"", leaf |-> Leaf("a.b", "!=", Str("x y"))]
>>

\* the spellings of the Boolean operators in a WHERE text
OpWords == <<[text |-> "AND", op |-> "AND"], [text |-> "OR", op |-> "OR"], [text |-> "or", op |-> "OR"]>>

\* A WHERE text is described by its shape:
\*   chain:  c1 op1 c2 op2 ... cn, no parentheses
\*   wrap:   ((c1))
\*   both:   (c1) op1 (c2)
\*   right:  c1 op1 (c2 op2 c3)
\*   left:   (c1 op1 c2) op2 c3
\* comps and ops index Comps and OpWords.
Chains ==
    {[kind |-> "chain", comps |-> cs, ops |-> os] :
        cs \in {x \in SeqsUpTo(1..Len(Comps), MaxChain) : Len(x) >= 1},
        os \in SeqsUpTo(1..Len(OpWords), MaxChain - 1)}

Shapes ==
    {sh \in Chains : Len(sh.ops) = Len(sh.comps) - 1}
    \cup {[kind |-> "wrap", comps |-> <<c>>, ops |-> <<>>] : c \in 1..Len(Comps)}
    \cup {[kind |-> "both", comps |-> <<c, d>>, ops |-> <<o>>] :
            c \in 1..Len(Comps), d \in 1..Len(Comps), o \in 1..Len(OpWords)}
    \cup {[kind |-> k, comps |-> <<c, d, c>>, ops |-> <<o, q>>] :
            k \in {"right", "left"}, c \in 1..Len(Comps), d \in 1..Len(Comps),
            o \in 1..Len(OpWords), q \in 1..Len(OpWords)}

CompText(sh, i) == Comps[sh.comps[i]].text
OpText(sh, i) == " " \o OpWords[sh.ops[i]].text \o " "

RECURSIVE ChainText(_, _)
ChainText(sh, i) ==
    IF i = Len(sh.comps) THEN CompText(sh, i)
    ELSE CompText(sh, i) \o OpText(sh, i) \o ChainText(sh, i + 1)

\* the WHERE text of a shape
ShapeText(sh) ==
    CASE sh.kind = "chain" -> ChainText(sh, 1)
      [] sh.kind = "wrap" -> "((" \o CompText(sh, 1) \o "))"
      [] sh.kind = "both" ->
            "(" \o CompText(sh, 1) \o ")" \o OpText(sh, 1) \o "(" \o CompText(sh, 2) \o ")"
      [] sh.kind = "right" ->
            CompText(sh, 1) \o OpText(sh, 1)
            \o "(" \o CompText(sh, 2) \o OpText(sh, 2) \o CompText(sh, 3) \o ")"
      [] sh.kind = "left" ->
            "(" \o CompText(sh, 1) \o OpText(sh, 1) \o CompText(sh, 2) \o ")"
            \o OpText(sh, 2) \o CompText(sh, 3)

\* the leaves hand-built predicate trees are made of; the last two carry
\* operators evalCondition does not know
TreeLeaves == <<
    Leaf("age", ">", Num(25)),
    Leaf("name", "LIKE", Str("a%")),
    Leaf("g", "=", Num(1)),
    Leaf("zip", "<=", Str("m")),
    Leaf("v", "<>", Num(5)),
    Leaf("age", "BETWEEN", Num(1))
>>

BoolNodes(children) ==
    {[op |-> o, clauses |-> cs] : o \in {"AND", "OR"}, cs \in SeqsUpTo(children, MaxClauses)}

LeafSet == {TreeLeaves[i] : i \in 1..Len(TreeLeaves)}

\* the trees handed to evalCondition: no tree, a leaf, a node over leaves, a
\* node over a leaf and a node
Trees ==
    {NoCond} \cup LeafSet \cup BoolNodes(LeafSet)
    \cup {[op |-> o, clauses |-> <<l, n>>] :
            o \in {"AND", "OR"}, l \in LeafSet,
            n \in {x \in BoolNodes({TreeLeaves[1], TreeLeaves[4], TreeLeaves[5]}) : Len(x.clauses) = 2}}

\* the values and the patterns handed to matchLike
LikeValues == {"", "A", "a", "Al", "AB", "Ann", "Anna", "Alice", "Bob", "bA", "a.c", "abc", "a+", "\n", "A\n", "A\nb", "A\r"}
LikePatterns == {"%", "A_", "A%", "a%", "_", "", "%n", "_n%", "a.c", "a+", "%b%", "A_%", "al"}

\* the rows handed to orderRows on its own: a number, text that reads as a
\* number, other text and null under the one sort key k
SortRows == {[k |-> Num(2)], [k |-> Str("10")], [k |-> Str("1a")], [k |-> Null]}

\* the lists handed to the constructor of Quarr
QuarrData == {
    <<>>,
    <<[name |-> Str("Bob"), age |-> Num(30), g |-> Num(1)],
      [name |-> Str("Ann"), age |-> Num(20), g |-> Num(2)],
      [name |-> Str("Cy"), age |-> Num(30), g |-> Num(1)]>>,
    <<[name |-> Str("Bob"), age |-> Num(30), g |-> Num(1)],
      [name |-> Str("Al"), g |-> Num(1)],
      [name |-> Str("Ann"), age |-> Num(20), g |-> Num(2)]>>,
    <<[name |-> Str("Bob"), age |-> Num(30), g |-> Num(1)],
      [name |-> Str("Dee"), age |-> Str("5"), g |-> Num(2)]>>
}

\* the rows handed to evalCondition
EvalRows == {r \in Rows : "name" \in DOMAIN r} \cup {EmptyRow}

-----------------------------------------------------------------------------
(* The state machine: each action is one call of an exported function (or  *)
(* of parseWhere, which parseSQL calls on the WHERE text); the state holds *)
(* the arguments and the value returned.  The functions keep no state of   *)
(* their own, so a run is one call, or parseSQL followed by executeAST on  *)
(* the AST it returned.                                                    *)

NoAst == [type |-> "none"]
NoShape == [kind |-> "none"]
NoEffects == [returned |-> "none", written |-> {}]
NoLike == [value |-> "", pattern |-> ""]

Init ==
    /\ op = "none"
    /\ query = ""
    /\ shape = NoShape
    /\ ast = NoAst
    /\ cond = NoCond
    /\ like = NoLike
    /\ input = <<>>
    /\ data = <<>>
    /\ quarr = <<>>
    /\ calls = <<>>
    /\ arg = ""
    /\ effects = NoEffects
    /\ result = Ok(<<>>)

\* parseSQL(q)
ParseSQL ==
    \E q \in Queries :
        /\ op = "none"
        /\ op' = "parseSQL"
        /\ query' = q
        /\ shape' = NoShape
        /\ result' = parseSQL(q)
        /\ ast' = IF result'.ok THEN result'.value ELSE NoAst
        /\ cond' = NoCond
        /\ like' = NoLike
        /\ input' = <<>>
        /\ data' = <<>>
        /\ effects' = NoEffects
        /\ UNCHANGED <<quarr, calls, arg>>

\* executeAST(ast, d) on the AST parseSQL returned
ExecuteAST ==
    \E d \in DataSets :
        /\ op = "parseSQL"
        /\ result.ok
        /\ op' = "executeAST"
        /\ input' = d
        /\ data' = executeHeap(ast, d).data
        /\ effects' = [returned |-> executeHeap(ast, d).returned,
                       written |-> executeHeap(ast, d).written]
        /\ result' = executeAST(ast, d)
        /\ UNCHANGED <<query, shape, ast, cond, like, quarr, calls, arg>>

\* parseWhere(text) on the text of a shape
ParseWhere ==
    \E sh \in Shapes :
        /\ op = "none"
        /\ op' = "parseWhere"
        /\ query' = ShapeText(sh)
        /\ shape' = sh
        /\ result' = parseWhere(query')
        /\ cond' = IF result'.ok THEN result'.value ELSE NoCond
        /\ ast' = NoAst
        /\ like' = NoLike
        /\ input' = <<>>
        /\ data' = <<>>
        /\ effects' = NoEffects
        /\ UNCHANGED <<quarr, calls, arg>>

\* evalCondition(row, tree) on a hand-built tree
EvalCondition ==
    \E r \in EvalRows, c \in Trees :
        /\ op = "none"
        /\ op' = "evalCondition"
        /\ query' = ""
        /\ shape' = NoShape
        /\ ast' = NoAst
        /\ cond' = c
        /\ like' = NoLike
        /\ input' = <<r>>
        /\ data' = <<r>>
        /\ effects' = NoEffects
        /\ UNCHANGED <<quarr, calls, arg>>
        /\ result' = evalCondition(r, c)

\* matchLike(value, pattern)
MatchLike ==
    \E v \in LikeValues, p \in LikePatterns :
        /\ op = "none"
        /\ op' = "matchLike"
        /\ like' = [value |-> v, pattern |-> p]
        /\ result' = Ok(matchLike(v, p))
        /\ UNCHANGED <<query, shape, ast, cond, input, data, quarr, calls, arg, effects>>

\* the calls on a builder that return an answer and end the run of the model
\* (a call made after them finds the builder as it was before them)
Answers == {"execute", "sum", "avg"}

\* Quarr.from(d): new Quarr(d), with the initial values of the fields
QuarrFrom ==
    \E d \in QuarrData :
        /\ op = "none"
        /\ op' = "from"
        /\ quarr' = [data |-> d, filters |-> <<>>, sortOrder |-> "asc", skipCount |-> 0]
        /\ calls' = <<[method |-> "from", data |-> d]>>
        /\ result' = Ok("this")
        /\ UNCHANGED <<query, shape, ast, cond, like, input, data, effects>>
        /\ arg' = ""

\* select(fields)
QuarrSelect ==
    \E fields \in {<<"name">>, <<"age", "zip">>} :
        /\ calls # <<>> /\ op \notin Answers
        /\ Len(calls) <= MaxCalls
        /\ op' = "select"
        /\ quarr' = SetProp(quarr, "selectedFields", fields)
        /\ calls' = Append(calls, [method |-> "select", fields |-> fields])
        /\ result' = Ok("this")
        /\ UNCHANGED <<query, shape, ast, cond, like, input, data, effects>>
        /\ arg' = ""

\* a where that keeps the last predicate only
QuarrWhereLast ==
    \E predicate \in {Leaf("age", ">", Num(25)), Leaf("g", "=", Num(1))} :
        /\ calls # <<>> /\ op \notin Answers
        /\ Len(calls) <= MaxCalls
        /\ op' = "where"
        /\ quarr' = [quarr EXCEPT !.filters = <<predicate>>]
        /\ calls' = Append(calls, [method |-> "where", predicate |-> predicate])
        /\ result' = Ok("this")
        /\ UNCHANGED <<query, shape, ast, cond, like, input, data, effects>>
        /\ arg' = ""

\* where(predicate)
QuarrWhere ==
    \E predicate \in {Leaf("age", ">", Num(25)), Leaf("g", "=", Num(1))} :
        /\ calls # <<>> /\ op \notin Answers
        /\ Len(calls) <= MaxCalls
        /\ op' = "where"
        /\ quarr' = [quarr EXCEPT !.filters = Append(@, predicate)]
        /\ calls' = Append(calls, [method |-> "where", predicate |-> predicate])
        /\ result' = Ok("this")
        /\ UNCHANGED <<query, shape, ast, cond, like, input, data, effects>>
        /\ arg' = ""

\* sort(field, order); order is "asc" where the call leaves it out
QuarrSort ==
    \E field \in {"age", "name"}, order \in {"asc", "desc"} :
        /\ calls # <<>> /\ op \notin Answers
        /\ Len(calls) <= MaxCalls
        /\ op' = "sort"
        /\ quarr' = [SetProp(quarr, "sortField", field) EXCEPT !.sortOrder = order]
        /\ calls' = Append(calls, [method |-> "sort", field |-> field, order |-> order])
        /\ result' = Ok("this")
        /\ UNCHANGED <<query, shape, ast, cond, like, input, data, effects>>
        /\ arg' = ""

\* skip(count): throws for a negative count and sets nothing
QuarrSkip ==
    \E count \in -1..1 :
        /\ calls # <<>> /\ op \notin Answers
        /\ Len(calls) <= MaxCalls
        /\ op' = "skip"
        /\ quarr' = IF count < 0 THEN quarr ELSE [quarr EXCEPT !.skipCount = count]
        /\ calls' = Append(calls, [method |-> "skip", count |-> count])
        /\ result' = IF count < 0 THEN Throw("Skip count must be non-negative.") ELSE Ok("this")
        /\ UNCHANGED <<query, shape, ast, cond, like, input, data, effects>>
        /\ arg' = ""

\* limit(count): throws for a count that is not positive and sets nothing
QuarrLimit ==
    \E count \in 0..2 :
        /\ calls # <<>> /\ op \notin Answers
        /\ Len(calls) <= MaxCalls
        /\ op' = "limit"
        /\ quarr' = IF count <= 0 THEN quarr ELSE SetProp(quarr, "limitCount", count)
        /\ calls' = Append(calls, [method |-> "limit", count |-> count])
        /\ result' = IF count <= 0 THEN Throw("Limit count must be greater than 0.") ELSE Ok("this")
        /\ UNCHANGED <<query, shape, ast, cond, like, input, data, effects>>
        /\ arg' = ""

\* execute()
QuarrExecute ==
    /\ calls # <<>> /\ op \notin Answers
    /\ \E out \in execute(quarr) :
        /\ op' = "execute"
        /\ result' = Ok(out)
        /\ UNCHANGED <<query, shape, ast, cond, like, input, data, quarr, calls, effects>>
        /\ arg' = ""

\* orderRows(rows, orderBy) on one sort key.  Where the comparator is not a
\* consistent comparator for the rows, the order Array.prototype.sort leaves
\* is implementation-defined: any permutation of the rows.
OrderRows ==
    \E rows \in SeqsUpTo(SortRows, MaxSorted), direction \in {"ASC", "DESC"} :
        LET orderBy == <<[field |-> "k", direction |-> direction]>>
            n == Len(rows)
            Consistent ==
                \A a, b, c \in 1..n :
                    /\ (rowCompare(rows[a], rows[b], orderBy) < 0)
                         <=> (rowCompare(rows[b], rows[a], orderBy) > 0)
                    /\ (rowCompare(rows[a], rows[b], orderBy) <= 0
                          /\ rowCompare(rows[b], rows[c], orderBy) <= 0)
                         => rowCompare(rows[a], rows[c], orderBy) <= 0
            Orderings ==
                {[i \in 1..n |-> rows[f[i]]] :
                    f \in {g \in [1..n -> 1..n] : \A a, b \in 1..n : g[a] = g[b] => a = b}}
        IN  /\ op = "none"
            /\ op' = "orderRows"
            /\ ast' = [type |-> "none", orderBy |-> orderBy]
            /\ input' = rows
            /\ data' = rows
            /\ result' \in IF Consistent THEN {Ok(orderRows(rows, orderBy))}
                           ELSE {Ok(out) : out \in Orderings}
            /\ UNCHANGED <<query, shape, cond, like, quarr, calls, arg, effects>>

\* a sum over the records that remain after the first skipCount
QuarrSumSkipped ==
    \E field \in {"age", "name"} :
        /\ calls # <<>> /\ op \notin Answers
        /\ op' = "sum"
        /\ arg' = field
        /\ result' = sum([quarr EXCEPT !.data = SubSeq(@, quarr.skipCount + 1, Len(@))], field)
        /\ UNCHANGED <<query, shape, ast, cond, like, input, data, quarr, calls, effects>>

\* sum(field)
QuarrSum ==
    \E field \in {"age", "name"} :
        /\ calls # <<>> /\ op \notin Answers
        /\ op' = "sum"
        /\ arg' = field
        /\ result' = sum(quarr, field)
        /\ UNCHANGED <<query, shape, ast, cond, like, input, data, quarr, calls, effects>>

\* avg(field)
QuarrAvg ==
    \E field \in {"age", "name"} :
        /\ calls # <<>> /\ op \notin Answers
        /\ op' = "avg"
        /\ arg' = field
        /\ result' = avg(quarr, field)
        /\ UNCHANGED <<query, shape, ast, cond, like, input, data, quarr, calls, effects>>

Next ==
    \/ OrderRows
    \/ ParseSQL \/ ExecuteAST \/ ParseWhere \/ EvalCondition \/ MatchLike
    \/ QuarrFrom \/ QuarrSelect \/ QuarrWhere \/ QuarrSort \/ QuarrSkip \/ QuarrLimit
    \/ QuarrExecute \/ QuarrSum \/ QuarrAvg

Spec == Init /\ [][Next]_vars

-----------------------------------------------------------------------------
(* Properties *)

\* the state holds the result of executeAST(ast, data)
Executed == op = "executeAST"

\* the name a select item gives its output key: its alias, else its text
OutName(f) == IF "alias" \in DOMAIN f THEN f.alias ELSE f.expr

\* the positions of the rows of data that satisfy the WHERE predicate
KeptIdx ==
    {i \in DOMAIN data : ~Has(ast, "where") \/ evalCondition(data[i], ast.where) = Ok(TRUE)}

\* the k-th of them
KeptRow(k) == data[CHOOSE i \in KeptIdx : Cardinality({j \in KeptIdx : j <= i}) = k]

\* the select list holds no aggregate, and there is no GROUP BY, ORDER BY
\* or LIMIT
PlainQuery ==
    /\ Executed
    /\ ~Has(ast, "groupBy") /\ ~Has(ast, "orderBy") /\ ~Has(ast, "limit")
    /\ \A i \in DOMAIN ast.fields : parseAggregateExpr(ast.fields[i].expr) = <<>>

\* C1: executeAST(parseSQL("SELECT * FROM t"), data) returns the records of
\* data, in order, each with the keys and values of the input record.
C1_SelectStarReturnsData ==
    (Executed /\ query = "SELECT * FROM t") => result = Ok(data)

\* the output record of a plain query for a row: one key per output name,
\* holding the column of the last select item of that name
ProjectionOf(row) ==
    [n \in {OutName(ast.fields[i]) : i \in DOMAIN ast.fields} |->
        evalSimpleExpr(row, ast.fields[Max({i \in DOMAIN ast.fields : OutName(ast.fields[i]) = n})].expr)]

\* C2 (as amended): a plain query returns one record per row that satisfies
\* the WHERE predicate, in input order; the record has one key per distinct
\* output name (alias, else expression text) of the select list, holding the
\* value of the column of the last select item with that name.
C2_PlainProjection ==
    PlainQuery =>
        /\ result.ok
        /\ Len(result.value) = Cardinality(KeptIdx)
        /\ \A k \in DOMAIN result.value : result.value[k] = ProjectionOf(KeptRow(k))

\* C2 (as stated): a plain query returns one record per row that satisfies
\* the WHERE predicate, in input order, each with exactly one key per select
\* item, named by the item's alias or text and holding that column's value.
C2_OneKeyPerItem ==
    PlainQuery =>
        /\ result.ok
        /\ Len(result.value) = Cardinality(KeptIdx)
        /\ \A k \in DOMAIN result.value :
            /\ Cardinality(DOMAIN result.value[k]) = Len(ast.fields)
            /\ \A i \in DOMAIN ast.fields :
                Prop(result.value[k], OutName(ast.fields[i]))
                    = evalSimpleExpr(KeptRow(k), ast.fields[i].expr)

\* Bob (age 30) and Ann (age 20) queried for the names with age > 25: Bob
C2_Witness ==
    /\ PlainQuery
    /\ query = "SELECT name FROM t WHERE age > 25"
    /\ Len(data) = 2
    /\ Prop(data[1], "name") = Str("Bob") /\ Prop(data[2], "name") = Str("Ann")
    /\ result = Ok(<<[name |-> Str("Bob")]>>)

\* the tree of the chain c_i op_i c_i+1 ... c_n when every split is made at
\* the first operator
RECURSIVE ChainTree(_, _)
ChainTree(sh, i) ==
    IF i = Len(sh.comps) THEN Comps[sh.comps[i]].leaf
    ELSE Node(OpWords[sh.ops[i]].op, Comps[sh.comps[i]].leaf, ChainTree(sh, i + 1))

\* C3: for a chain c1 op1 c2 op2 ... cn without parentheses, parseWhere
\* returns the tree whose root is op1, whose left child is the leaf c1 and
\* whose right child is the parse of c2 op2 ... cn, AND and OR alike.
C3_FirstOperatorSplits ==
    (op = "parseWhere" /\ shape.kind = "chain") => result = Ok(ChainTree(shape, 1))

\* A AND B OR C parsed as A AND (B OR C)
C3_Witness ==
    /\ op = "parseWhere" /\ shape.kind = "chain" /\ Len(shape.comps) = 3
    /\ OpWords[shape.ops[1]].op = "AND" /\ OpWords[shape.ops[2]].op = "OR"
    /\ result.ok
    /\ result.value.op = "AND"
    /\ result.value.clauses[2].op = "OR"

\* C4: a parenthesised sub-expression is parsed as one unit: (P) op (Q) is
\* the node op over the parses of P and Q, X op1 (P op2 Q) the node op1 over
\* X and the node op2 over P and Q, (X op1 P) op2 Q the node op2 over the
\* node op1 over X and P, and Q.
C4_ParenthesisedUnits ==
    op = "parseWhere" =>
        /\ shape.kind = "both" =>
            result = Ok(Node(OpWords[shape.ops[1]].op,
                             Comps[shape.comps[1]].leaf, Comps[shape.comps[2]].leaf))
        /\ shape.kind = "right" =>
            result = Ok(Node(OpWords[shape.ops[1]].op,
                             Comps[shape.comps[1]].leaf,
                             Node(OpWords[shape.ops[2]].op,
                                  Comps[shape.comps[2]].leaf, Comps[shape.comps[3]].leaf)))
        /\ shape.kind = "left" =>
            result = Ok(Node(OpWords[shape.ops[2]].op,
                             Node(OpWords[shape.ops[1]].op,
                                  Comps[shape.comps[1]].leaf, Comps[shape.comps[2]].leaf),
                             Comps[shape.comps[3]].leaf))

\* the operators evalCondition knows
SevenOps == {"=", "!=", ">", "<", ">=", "<=", "LIKE"}

IsNode(c) == c # NoCond /\ c.op \in {"AND", "OR"}

\* every leaf of the tree uses one of the seven operators
RECURSIVE Supported(_)
Supported(c) ==
    IF c = NoCond THEN TRUE
    ELSE IF IsNode(c) THEN \A i \in DOMAIN c.clauses : Supported(c.clauses[i])
    ELSE c.op \in SevenOps

\* what a tree of supported leaves says of a row: AND is all, OR is some
RECURSIVE Satisfies(_, _)
Satisfies(row, c) ==
    IF c = NoCond THEN TRUE
    ELSE IF c.op = "AND" THEN \A i \in DOMAIN c.clauses : Satisfies(row, c.clauses[i])
    ELSE IF c.op = "OR" THEN \E i \in DOMAIN c.clauses : Satisfies(row, c.clauses[i])
    ELSE evalLeaf(Prop(row, c.left), c) = Ok(TRUE)

\* C5: on a tree whose leaves use only the seven operators evalCondition
\* returns a boolean and does not throw, also when the field is missing from
\* the record: true for no tree, for an AND node whether all children hold,
\* for an OR node whether some child holds; it throws only on a tree with a
\* leaf of another operator.
C5_EvalConditionTotal ==
    op = "evalCondition" =>
        /\ Supported(cond) => result = Ok(Satisfies(data[1], cond))
        /\ ~result.ok => ~Supported(cond)

\* an OR node over a leaf on a field the record lacks and a leaf that holds
C5_Witness ==
    /\ op = "evalCondition"
    /\ IsNode(cond) /\ cond.op = "OR" /\ Len(cond.clauses) = 2
    /\ Supported(cond)
    /\ ~IsNode(cond.clauses[1]) /\ ~Has(data[1], cond.clauses[1].left)
    /\ result = Ok(TRUE)

\* C6: the leaf a.b > 5 is evaluated against the value found by looking up
\* a and then b on the record (absent if a segment is missing), not against
\* a top-level key named "a.b": the query returns the rows whose nested
\* value exceeds 5.
C6_DottedPathInWhere ==
    (Executed /\ query = "SELECT name FROM t WHERE a.b > 5") =>
        /\ result.ok
        /\ Len(result.value)
            = Cardinality({i \in DOMAIN data :
                            LessThan(Num(5), WalkPath(Obj(data[i]), <<"a", "b">>)) = "true"})

\* the rows that pass the WHERE predicate, in input order
Filtered == [k \in 1..Cardinality(KeptIdx) |-> KeptRow(k)]

Grouped == Executed /\ Has(ast, "groupBy")

\* the output key of the COUNT(*) item of the select list
CountStarName ==
    OutName(ast.fields[CHOOSE i \in DOMAIN ast.fields :
                        parseAggregateExpr(ast.fields[i].expr) = [fn |-> "COUNT", col |-> "*"]])

RECURSIVE SumOver(_, _)
SumOver(rows, key) ==
    IF Len(rows) = 0 THEN 0 ELSE Prop(Head(rows), key).n + SumOver(Tail(rows), key)

\* the group-by values of a row
GroupValues(row) == [i \in DOMAIN ast.groupBy |-> evalSimpleExpr(row, ast.groupBy[i])]

C8_GroupsByValue ==
    (Grouped /\ ~Has(ast, "limit")) =>
        /\ result.ok
        /\ Len(result.value) = Cardinality({GroupValues(data[i]) : i \in KeptIdx})

\* a value SUM, AVG, MAX and MIN retain: one that is neither null nor
\* absent and coerces to a number
Coercible(v) == ~IsNullish(v) /\ JsNumber(v) # NaN

\* the aggregate items of the select list: [name, fn, col]
AggItems ==
    {[name |-> OutName(ast.fields[i]),
      fn |-> parseAggregateExpr(ast.fields[i].expr).fn,
      col |-> parseAggregateExpr(ast.fields[i].expr).col] :
        i \in {j \in DOMAIN ast.fields : parseAggregateExpr(ast.fields[j].expr) # <<>>}}

\* C9: when no filtered row has a numeric-coercible value for the column
\* (also when there is no row), every output record has AVG, MAX and MIN
\* null and SUM 0.
C9_NoNumericValues ==
    (Executed /\ result.ok) =>
        \A k \in DOMAIN result.value : \A ag \in AggItems :
            (\A i \in KeptIdx : ~Coercible(evalSimpleExpr(data[i], ag.col))) =>
                /\ ag.fn \in {"AVG", "MAX", "MIN"} => Prop(result.value[k], ag.name) = Null
                /\ ag.fn = "SUM" => Prop(result.value[k], ag.name) = Num(0)

\* the coercible values of a column, as numbers
RECURSIVE Retained(_, _)
Retained(rows, col) ==
    IF Len(rows) = 0 THEN <<>>
    ELSE (IF Coercible(evalSimpleExpr(Head(rows), col))
          THEN <<JsNumber(evalSimpleExpr(Head(rows), col))>> ELSE <<>>)
         \o Retained(Tail(rows), col)

\* C10: without GROUP BY, SUM, AVG, MAX and MIN over a column are the sum,
\* the sum divided by the number, the largest and the smallest of the
\* retained values of the filtered rows, rows with a null, absent or
\* non-numeric value counting for nothing.
C10_OnlyNumericRows ==
    (Executed /\ result.ok /\ ~Has(ast, "groupBy") /\ AggItems # {}) =>
        \A ag \in AggItems :
            Len(Retained(Filtered, ag.col)) > 0 =>
                /\ ag.fn = "SUM" =>
                    Prop(result.value[1], ag.name) = SumVals(Retained(Filtered, ag.col))
                /\ ag.fn = "AVG" =>
                    Prop(result.value[1], ag.name)
                        = Frac(SumVals(Retained(Filtered, ag.col)).n,
                               SumVals(Retained(Filtered, ag.col)).d * Len(Retained(Filtered, ag.col)))
                /\ ag.fn = "MAX" =>
                    Prop(result.value[1], ag.name) = MaxVal(Retained(Filtered, ag.col))
                /\ ag.fn = "MIN" =>
                    Prop(result.value[1], ag.name) = MinVal(Retained(Filtered, ag.col))

\* the AST without one of its clauses
Without(a, key) == [k \in DOMAIN a \ {key} |-> a[k]]

\* the Row Comparator on one key, as its sign: null and undefined tie and
\* come before any other value, two values that parse as numbers compare
\* numerically, any other two as strings without case
KeyOrder(va, vb) ==
    IF IsNullish(va) \/ IsNullish(vb)
    THEN (IF IsNullish(va) /\ IsNullish(vb) THEN 0 ELSE IF IsNullish(va) THEN -1 ELSE 1)
    ELSE IF JsNumber(va) # NaN /\ JsNumber(vb) # NaN
    THEN (IF NumLess(JsNumber(va), JsNumber(vb)) THEN -1
          ELSE IF NumLess(JsNumber(vb), JsNumber(va)) THEN 1 ELSE 0)
    ELSE (IF StrLess(ToLowerCase(JsString(va)), ToLowerCase(JsString(vb))) THEN -1
          ELSE IF StrLess(ToLowerCase(JsString(vb)), ToLowerCase(JsString(va))) THEN 1 ELSE 0)

\* the Row Comparator on the keys from the k-th on: the first key that
\* tells the records apart decides, DESC negating it
RECURSIVE RowOrder(_, _, _, _)
RowOrder(r1, r2, orderBy, k) ==
    IF k > Len(orderBy) THEN 0
    ELSE IF KeyOrder(Prop(r1, orderBy[k].field), Prop(r2, orderBy[k].field)) # 0
    THEN KeyOrder(Prop(r1, orderBy[k].field), Prop(r2, orderBy[k].field))
            * (IF orderBy[k].direction = "DESC" THEN -1 ELSE 1)
    ELSE RowOrder(r1, r2, orderBy, k + 1)

\* out is sorted from before by the keys orderBy: p says where each record
\* of out was in before
SortedFrom(out, before, orderBy) ==
    /\ Len(out) = Len(before)
    /\ \E p \in [DOMAIN out -> DOMAIN out] :
        /\ \A i, j \in DOMAIN out : p[i] = p[j] => i = j
        /\ \A i \in DOMAIN out : out[i] = before[p[i]]
        /\ \A i \in DOMAIN out :
            i < Len(out) => RowOrder(out[i], out[i + 1], orderBy, 1) <= 0
        /\ \A i, j \in DOMAIN out :
            (i < j /\ RowOrder(out[i], out[j], orderBy, 1) = 0) => p[i] < p[j]

Ordered == Executed /\ Has(ast, "orderBy") /\ ~Has(ast, "limit")

C12_LimitCutsResult ==
    (Executed /\ Has(ast, "limit")) =>
        /\ result.ok
        /\ result.value = Slice0(executeAST(Without(ast, "limit"), data).value, ast.limit)

\* C13: parseSQL throws on a query whose LIMIT is 0 or negative: it returns
\* no AST with limit 0, and none for a query that says LIMIT -1.
C13_LimitMustBePositive ==
    (op = "parseSQL" /\ result.ok) =>
        /\ Has(ast, "limit") => ast.limit > 0
        /\ ~Includes(query, "LIMIT -")

\* C14: executeAST throws when a select item is an aggregate call of a
\* function other than SUM, AVG, COUNT, MAX and MIN, such as MEDIAN(v); it
\* returns no rows.
C14_UnknownAggregateThrows ==
    (Executed /\ \E i \in DOMAIN ast.fields : StartsWith(ast.fields[i].expr, "MEDIAN("))
        => ~result.ok

\* the word kw stands in text q as a keyword: between white space or the
\* ends of the text, in either case
KeywordIn(q, kw) ==
    \E i \in 1..Len(q) :
        /\ StartsWithAt(ToUpperCase(q), kw, i)
        /\ At(q, i - 1) \in SpaceSet \cup {""}
        /\ At(q, i + Len(kw)) \in SpaceSet \cup {""}

\* the WHERE fragment of q, "" without one
WhereFragment(q) == ClauseBody(CollapseWs(q), "WHERE ", {"GROUP BY", "ORDER BY", "LIMIT"})

\* the three reasons for parseSQL to throw
MustReject(q) ==
    \/ ~KeywordIn(q, "SELECT") \/ ~KeywordIn(q, "FROM")
    \/ KeywordIn(q, "JOIN")
    \/ WhereFragment(q) # "" /\ ~parseWhere(WhereFragment(q)).ok

\* C15: parseSQL throws exactly when SELECT or FROM is missing, JOIN stands
\* as a keyword, or the WHERE fragment is neither a split nor a comparison;
\* any other query, also one with a column named joined_at, gives an AST.
C15_ThrowsExactlyWhenMalformed ==
    op = "parseSQL" => (~result.ok <=> MustReject(query))

RECURSIVE LikeMatches(_, _)
LikeMatches(value, pattern) ==
    IF pattern = "" THEN value = ""
    ELSE IF At(pattern, 1) = "%"
    THEN \E k \in 0..Len(value) :
            LikeMatches(SubSeq(value, k + 1, Len(value)), SubSeq(pattern, 2, Len(pattern)))
    ELSE /\ value # ""
         /\ \/ At(pattern, 1) = "_"
            \/ ToLowerCh(At(pattern, 1)) = ToLowerCh(At(value, 1))
         /\ LikeMatches(SubSeq(value, 2, Len(value)), SubSeq(pattern, 2, Len(pattern)))

\* C17: matchLike(value, pattern) is true exactly when the whole value
\* matches the pattern without regard to case, % standing for any run of
\* characters, _ for exactly one character, every other character for
\* itself: "%" matches every string, "A_" the two-character strings
\* starting with A, "A%" the strings starting with A.
C17_LikeContract ==
    op = "matchLike" =>
        /\ result.value <=> LikeMatches(like.value, like.pattern)
        /\ like.pattern = "%" => result.value
        /\ like.pattern = "A_" =>
             (result.value <=> (Len(like.value) = 2 /\ ToUpperCh(At(like.value, 1)) = "A"))
        /\ like.pattern = "A%" =>
             (result.value <=> (like.value # "" /\ ToUpperCh(At(like.value, 1)) = "A"))

\* the select list of q: the text between SELECT and the first FROM
SelectList(q) ==
    SubSeq(CollapseWs(q), Len("SELECT ") + 1, IndexOf(ToUpperCase(CollapseWs(q)), " FROM ") - 1)

\* the commas of text that stand outside every pair of parentheses
TopLevelCommas(text) ==
    {i \in 1..Len(text) :
        /\ At(text, i) = ","
        /\ Cardinality({j \in 1..i : At(text, j) = "("})
             = Cardinality({j \in 1..i : At(text, j) = ")"})}

\* C18: parseSQL splits the select list only at the commas outside
\* parentheses: ast.fields has one entry per top-level item, and an item
\* such as FN(a, b) is one entry.
C18_SplitAtTopLevelCommas ==
    (op = "parseSQL" /\ result.ok) =>
        Len(ast.fields) = Cardinality(TopLevelCommas(SelectList(query))) + 1

\* q without its comments and its layout: each "--" is dropped with the rest
\* of its line, each block comment is dropped, runs of white space become
\* one space, and the ";" that ends the text is dropped
Plain(q) == Trim(StripSemicolon(CollapseWs(StripBlockComments(StripLineComments(q)))))

\* C19: comments and layout do not change what parseSQL returns: a query
\* with a line comment on one of its lines, a block comment between clauses,
\* more white space or line breaks between tokens, or a closing ";" yields
\* the AST of the query without them.
C19_LayoutIgnored ==
    op = "parseSQL" => result = parseSQL(Plain(query))

\* the calls of method m made on the builder that did not throw
Made(m) ==
    {i \in 1..Len(calls) :
        /\ calls[i].method = m
        /\ m = "skip" => calls[i].count >= 0
        /\ m = "limit" => calls[i].count > 0}

\* the most recent call of method m (one was made)
Recent(m) == calls[CHOOSE i \in Made(m) : \A j \in Made(m) : j <= i]

\* the constructor records that satisfy every predicate handed to where
Wanted ==
    LET All(item) ==
            \A i \in Made("where") :
                evalLeaf(Prop(item, calls[i].predicate.left), calls[i].predicate).value
    IN  SelectSeq(calls[1].data, All)

\* a comes before b under the most recent sort call
Before(a, b) ==
    IF Recent("sort").order = "asc"
    THEN LessThan(Prop(a, Recent("sort").field), Prop(b, Recent("sort").field)) = "true"
    ELSE LessThan(Prop(b, Recent("sort").field), Prop(a, Recent("sort").field)) = "true"

\* the sort field has an order on the wanted records: all numbers or all strings
SortDefined ==
    Made("sort") # {} =>
        \E t \in {"number", "string"} :
            \A i \in 1..Len(Wanted) : Prop(Wanted[i], Recent("sort").field).t = t

\* the orders of the wanted records that are sorted by the most recent sort
\* call, records with equal sort values staying in the order they had
SortedWanted ==
    LET n == Len(Wanted)
        InOrder(f) ==
            /\ \A a, b \in 1..n : f[a] = f[b] => a = b
            /\ \A a, b \in 1..n :
                 a < b => \/ Before(Wanted[f[a]], Wanted[f[b]])
                          \/ ~Before(Wanted[f[b]], Wanted[f[a]]) /\ f[a] < f[b]
    IN  IF Made("sort") = {} THEN {Wanted}
        ELSE {[k \in 1..n |-> Wanted[f[k]]] : f \in {g \in [1..n -> 1..n] : InOrder(g)}}

\* items without its first skipCount records, cut to limitCount records,
\* each record reduced to the fields of the most recent select call
Page(items) ==
    LET skipped ==
            IF Made("skip") = {} THEN items
            ELSE SubSeq(items, Recent("skip").count + 1, Len(items))
        cut ==
            IF Made("limit") = {} THEN skipped
            ELSE [k \in {i \in 1..Len(skipped) : i <= Recent("limit").count} |-> skipped[k]]
        Picked(item) ==
            [f \in {Recent("select").fields[i] : i \in 1..Len(Recent("select").fields)} |->
                Prop(item, f)]
    IN  IF Made("select") = {} THEN [k \in 1..Len(cut) |-> cut[k]]
        ELSE [k \in 1..Len(cut) |-> Picked(cut[k])]

C21_ComparatorConsistent ==
    op = "orderRows" =>
        \A a, b, c \in DOMAIN input :
            /\ (compare(input[a], input[b], "k") < 0) <=> (compare(input[b], input[a], "k") > 0)
            /\ (compare(input[a], input[b], "k") = 0) <=> (compare(input[b], input[a], "k") = 0)
            /\ (compare(input[a], input[b], "k") <= 0 /\ compare(input[b], input[c], "k") <= 0)
                 => compare(input[a], input[c], "k") <= 0

\* the field arg of the constructor records, record by record
ArgValues == [i \in 1..Len(calls[1].data) |-> Prop(calls[1].data[i], arg)]

\* the arithmetic sum of the first n values of the field (all are numbers)
RECURSIVE Total(_)
Total(n) == IF n = 0 THEN Num(0) ELSE NumAdd(Total(n - 1), ArgValues[n])

\* sum or avg has just been called
Summed == op \in {"sum", "avg"}

\* the first constructor record has a number in the field
FirstIsNumber == Len(ArgValues) # 0 /\ ArgValues[1].t \in {"number", "NaN"}

\* what sum and avg are to return, given the sum total of the field
Answer(total) ==
    IF op = "sum" THEN total ELSE Frac(total.n, total.d * Len(ArgValues))

\* C22 as stated: whatever where, skip, limit, sort or select calls came
\* before, sum and avg throw exactly when the first constructor record's
\* field is not a number (also for empty data), and otherwise return the sum
\* of the field over all constructor records, avg that sum divided by the
\* number of records.
C22_SumOverAllRecords ==
    Summed =>
        /\ result.ok <=> FirstIsNumber
        /\ result.ok =>
             /\ TypeOf(result.value) = "number"
             /\ (\A i \in 1..Len(ArgValues) : ArgValues[i].t = "number")
                  => result.value = Answer(Total(Len(ArgValues)))

\* C22, amended: the value is the sum (the mean) when the field of every
\* constructor record is a number; sum and avg throw exactly when the first
\* record's field is not a number, and neither changes the builder.
C22_SumOfNumbers ==
    /\ [](Summed =>
            /\ result.ok <=> FirstIsNumber
            /\ (\A i \in 1..Len(ArgValues) : ArgValues[i].t = "number")
                 => (Len(ArgValues) # 0 => result = Ok(Answer(Total(Len(ArgValues))))))
    /\ [][(op' \in {"sum", "avg"}) => (quarr' = quarr /\ calls' = calls)]_vars

\* avg after a where and a skip that would leave fewer records: the mean
\* is still that of all three records
C22_Witness ==
    /\ op = "avg"
    /\ result.ok
    /\ Len(ArgValues) = 3
    /\ \A i \in 1..3 : ArgValues[i].t = "number"
    /\ quarr.skipCount = 1
    /\ Len(quarr.filters) = 1
    /\ result.value # ArgValues[2]
    /\ result.value.d # 1

============================================================================
